---- MODULE Spec2Model ----
(***************************************************************************)
(* State-machine model of the failure-recovery core of esp32_client_1:    *)
(* the two FreeRTOS queues and mutexes (freeRtos.cpp), the socket         *)
(* exchange (socketClient.cpp), the two recovery tasks, the main loop and *)
(* the loop watchdog (main.cpp).                                          *)
(*                                                                         *)
(* Four threads of control interleave: the Arduino loop task ("main"),    *)
(* taskSocketRecov ("sock"), taskSQL_HTTP and the Ticker callback         *)
(* ("timer").  Every action is one step between two accesses to shared    *)
(* state.                                                                  *)
(*                                                                         *)
(* The millisecond clock is counted in units of MsPerUnit = 8 ms, the     *)
(* greatest common divisor of 2^32 and of every duration the program      *)
(* compares, so that unsigned long arithmetic modulo 2^32 ms is           *)
(* arithmetic modulo 2^29 units.                                          *)
(***************************************************************************)
EXTENDS Integers, Sequences, FiniteSets, TLC

(* ------------------------------ constants ------------------------------ *)

SOCKET_QUEUE_SIZE == 2
HTTP_QUEUE_SIZE == 5
MAX_RETRY == 5
NO_UPDATE_FAIL == 0
pdTRUE == 1
errQUEUE_FULL == 0
\* char str[80], the answer's buffer; float tokens[5][5], the token grid
StrSize == 80
TokenRows == 5
TokenCols == 5

MsPerUnit == 2^3
ClockMod == 2^29
LWD_TIMEOUT == (15 * 1000) \div MsPerUnit
QUE_TIMEOUT == 5000 \div MsPerUnit

(* ------------------------------- bounds -------------------------------- *)

\* the clock advances in steps of a third of the watchdog window
TickStep == LWD_TIMEOUT \div 3

\* A run draws what its environment does (the peers' answers, the server's
\* status codes, the dashboard's commands, the passing of time) from one of
\* these bounded sets: peers that fail; peers that answer with sensor rows;
\* a run with the reboot command and a main loop that may hang; the same with
\* enough failures to fill the socket queue, and with rows to post only; and
\* a run in which the clock advances while the loop feeds the watchdog.
\* exchanges the main loop starts, records the socket task takes
SockExchanges == 3
SockRetries == 3
\* exchanges the main loop starts, messages the HTTP task takes
HttpExchanges == 2
HttpPosts == 2
\* exchanges, records and messages of the run with the reboot command
WdExchanges == 1
WdRetries == 1
WdPosts == 1
\* exchanges and records of the run that fills the socket queue and hangs
HangExchanges == 3
HangRetries == 1
\* exchanges and messages of the run that posts rows and hangs
HangPosts == 1
\* clock ticks of the run in which the loop feeds the watchdog
ClockTicks == 3
\* records the socket task takes in the run with one failed exchange
RetryRetries == 3
\* messages the HTTP task takes in the run with one sensor row
RepostPosts == 3
\* exchanges of the run in which answers arrive with a damaged checksum
CrcExchanges == 1
\* exchanges of the run in which answers are long or carry further tokens
ParseExchanges == 1
\* exchanges of the run in which the loop task and a retry both get rows
RaceExchanges == 2
\* exchanges and "refr" commands of the run in which the counters are reset
RefreshCommands == 2
\* clock ticks of the run in which millis() wraps, and the ticks before the wrap
WrapTicks == 3
WrapLead == 1

Commands == {"ALL"}
\* the token "|" that ends a row; every other token is a number
Bar == -1
\* sensor rows a peer may answer with: type code, tokens[3]
RowBME == [code |-> 76, key |-> 41]
RowADS == [code |-> 48, key |-> 7]
RowUnknown == [code |-> 99, key |-> 0]

EnvSockets ==
    [name |-> "sockets", peers |-> {"A", "B"}, exchanges |-> SockExchanges,
     retries |-> SockRetries, posts |-> 0, results |-> 0..3,
     payloads |-> { <<>> }, codes |-> {-1, 200}, watchdog |-> FALSE, ticks |-> 0,
     damage |-> {"value"}, trailing |-> { <<>> },
     lengths |-> { StrSize - 1 }, refresh |-> FALSE, boot |-> 0]
EnvHttp ==
    [name |-> "http", peers |-> {"A"}, exchanges |-> HttpExchanges, retries |-> 0,
     posts |-> HttpPosts, results |-> {0},
     payloads |-> { << RowBME >>, << RowUnknown >> },
     codes |-> {-1, 200, 404}, watchdog |-> FALSE, ticks |-> 0,
     damage |-> {"value"}, trailing |-> { <<>> },
     lengths |-> { StrSize - 1 }, refresh |-> FALSE, boot |-> 0]
\* the same with answers of five rows, as many as the HTTP queue holds
EnvFull ==
    [name |-> "full", peers |-> {"A"}, exchanges |-> HttpExchanges, retries |-> 0,
     posts |-> HttpPosts, results |-> {0},
     payloads |-> { << RowBME, RowADS, RowBME, RowADS, RowBME >> },
     codes |-> {-1, 200, 404}, watchdog |-> FALSE, ticks |-> 0,
     damage |-> {"value"}, trailing |-> { <<>> },
     lengths |-> { StrSize - 1 }, refresh |-> FALSE, boot |-> 0]
\* in the runs with the watchdog the clock advances while the main loop is
\* hung or queStat polls; in EnvClock also while the loop runs
EnvWatchdog ==
    [name |-> "watchdog", peers |-> {"A"}, exchanges |-> WdExchanges,
     retries |-> WdRetries, posts |-> WdPosts, results |-> {0, 1},
     payloads |-> { <<>>, << RowBME >> }, codes |-> {200}, watchdog |-> TRUE,
     ticks |-> 0, damage |-> {"value"}, trailing |-> { <<>> },
     lengths |-> { StrSize - 1 }, refresh |-> FALSE, boot |-> 0]
EnvHang ==
    [name |-> "hang", peers |-> {"A"}, exchanges |-> HangExchanges,
     retries |-> HangRetries, posts |-> 0, results |-> {0, 1},
     payloads |-> { <<>> }, codes |-> {-1, 200}, watchdog |-> TRUE, ticks |-> 0,
     damage |-> {"value"}, trailing |-> { <<>> },
     lengths |-> { StrSize - 1 }, refresh |-> FALSE, boot |-> 0]
EnvHangHttp ==
    [name |-> "hang-http", peers |-> {"A"}, exchanges |-> HangPosts, retries |-> 0,
     posts |-> HangPosts, results |-> {0}, payloads |-> { << RowBME >> },
     codes |-> {-1, 200}, watchdog |-> TRUE, ticks |-> 0,
     damage |-> {"value"}, trailing |-> { <<>> },
     lengths |-> { StrSize - 1 }, refresh |-> FALSE, boot |-> 0]
EnvClock ==
    [name |-> "clock", peers |-> {"A"}, exchanges |-> 0, retries |-> 0,
     posts |-> 0, results |-> {0}, payloads |-> { <<>> }, codes |-> {200},
     watchdog |-> TRUE, ticks |-> ClockTicks,
     damage |-> {"value"}, trailing |-> { <<>> },
     lengths |-> { StrSize - 1 }, refresh |-> FALSE, boot |-> 0]
\* one exchange of the loop task, which may fail, and the retries of its record
EnvRetry ==
    [name |-> "retry", peers |-> {"A"}, exchanges |-> 1, retries |-> RetryRetries,
     posts |-> 0, results |-> {0, 1}, payloads |-> { <<>> }, codes |-> {200},
     watchdog |-> FALSE, ticks |-> 0,
     damage |-> {"value"}, trailing |-> { <<>> },
     lengths |-> { StrSize - 1 }, refresh |-> FALSE, boot |-> 0]
\* one exchange that answers with one sensor row, and the POSTs of its message
EnvRepost ==
    [name |-> "repost", peers |-> {"A"}, exchanges |-> 1, retries |-> 0,
     posts |-> RepostPosts, results |-> {0}, payloads |-> { << RowBME >> },
     codes |-> {-1, 0, 200}, watchdog |-> FALSE, ticks |-> 0,
     damage |-> {"value"}, trailing |-> { <<>> },
     lengths |-> { StrSize - 1 }, refresh |-> FALSE, boot |-> 0]
\* answers that arrive intact or with their checksum prefix damaged: another
\* value, a first character that is no hex digit, no prefix at all, or a
\* character that is no hex digit after the checksum
EnvCrc ==
    [name |-> "crc", peers |-> {"A"}, exchanges |-> CrcExchanges, retries |-> 1,
     posts |-> 0, results |-> {0, 3}, payloads |-> { <<>>, << RowBME >> },
     codes |-> {200}, watchdog |-> FALSE, ticks |-> 0,
     damage |-> {"value", "letter", "empty", "tail"}, trailing |-> { <<>> },
     lengths |-> { StrSize - 1 }, refresh |-> FALSE, boot |-> 0]
\* answers of 79, 80 and 81 characters, and answers that go on after their
\* rows: a sixth token in the last row, a further row, a sixth separator
EnvParse ==
    [name |-> "parse", peers |-> {"A"}, exchanges |-> ParseExchanges, retries |-> 0,
     posts |-> 0, results |-> {0},
     payloads |-> { <<>>, << RowBME >>, << RowBME, RowADS, RowBME, RowADS, RowBME >> },
     codes |-> {200}, watchdog |-> FALSE, ticks |-> 0, damage |-> {"value"},
     trailing |-> { <<>>, << 28 >>, << Bar, 28 >>, << Bar, Bar, Bar, Bar, Bar, 28 >> },
     lengths |-> { StrSize - 1, StrSize, StrSize + 1 }, refresh |-> FALSE, boot |-> 0]
\* a failed exchange, and then an exchange of the loop task and the retry of
\* the failed one, each answered with a sensor row
EnvRace ==
    [name |-> "race", peers |-> {"A"}, exchanges |-> RaceExchanges, retries |-> 1,
     posts |-> 0, results |-> {0, 1}, payloads |-> { << RowBME >>, << RowADS >> },
     codes |-> {200}, watchdog |-> FALSE, ticks |-> 0, damage |-> {"value"},
     trailing |-> { <<>> }, lengths |-> { StrSize - 1 }, refresh |-> FALSE, boot |-> 0]
\* exchanges that may fail, their retries, and "refr" commands
EnvRefresh ==
    [name |-> "refresh", peers |-> {"A"}, exchanges |-> RefreshCommands,
     retries |-> 1, posts |-> 0, results |-> {0, 1}, payloads |-> { <<>> },
     codes |-> {200}, watchdog |-> FALSE, ticks |-> 0, damage |-> {"value"},
     trailing |-> { <<>> }, lengths |-> { StrSize - 1 }, refresh |-> TRUE, boot |-> 0]
\* a run that is picked up `lead` ticks before millis() wraps: the clock
\* advances while the loop feeds the watchdog
EnvWrap(lead) ==
    [name |-> "wrap", peers |-> {"A"}, exchanges |-> 0, retries |-> 0,
     posts |-> 0, results |-> {0}, payloads |-> { <<>> }, codes |-> {200},
     watchdog |-> TRUE, ticks |-> WrapTicks, damage |-> {"value"},
     trailing |-> { <<>> }, lengths |-> { StrSize - 1 }, refresh |-> FALSE,
     boot |-> ClockMod - lead * TickStep]
Environments ==
    { EnvSockets, EnvHttp, EnvFull, EnvWatchdog, EnvHang, EnvHangHttp, EnvClock,
      EnvRetry, EnvRepost, EnvCrc, EnvParse, EnvRace, EnvRefresh }
Callers == {"main", "sock"}
QsCallers == {"main", "timer"}

VARIABLES
    QueSocket_Handle, QueHTTP_Handle,   \* the queues' contents, head first
    xMutex_sock, xMutex_http,           \* "null", "free" or the holder
    now, lwdTime, lwdTimeout,           \* millis(), the watchdog's two words
    tickerNext,                         \* when the Ticker next calls lwdtcb
    failSocket, passSocket, recoveredSocket, retry,
    mainpc, nExch,                      \* the loop task
    sc,                                 \* socketClient's frame, per caller
    tokens,                             \* the token grid, as rows
    sr,                                 \* socketRecovery's frame, per caller
    sockpc, socketQue, x,               \* taskSocketRecov
    httppc, message, httpResponseCode, phpScript, j, rc, ret,
    passPost, failPost, recovered, delAttempts,   \* taskSQL_HTTP
    qs,                                 \* queStat's frame, per caller
    cbpc,                               \* lwdtcb
    restarted,                          \* ESP.restart() has run
    env,                                \* what the run's environment may do
    delLog, resetDropped, feedLate      \* history

vars == << QueSocket_Handle, QueHTTP_Handle, xMutex_sock, xMutex_http,
           now, lwdTime, lwdTimeout, tickerNext,
           failSocket, passSocket, recoveredSocket, retry,
           mainpc, nExch, sc, tokens, sr, sockpc, socketQue, x,
           httppc, message, httpResponseCode, phpScript, j, rc, ret,
           passPost, failPost, recovered, delAttempts,
           qs, cbpc, restarted, env, delLog, resetDropped, feedLate >>

queueVars == << QueSocket_Handle, QueHTTP_Handle >>
mutexVars == << xMutex_sock, xMutex_http >>
wdVars == << lwdTime, lwdTimeout, tickerNext >>
clockVars == << now, feedLate >>
counterVars == << failSocket, passSocket, recoveredSocket, retry >>
mainVars == << mainpc, nExch >>
sockVars == << sockpc, socketQue, x >>
httpVars == << httppc, message, httpResponseCode, phpScript, j, rc, ret,
               passPost, failPost, recovered, delAttempts >>
histVars == << env, delLog, resetDropped >>

(* ------------------------------- helpers ------------------------------- *)

\* unsigned long subtraction and addition
USub(a, b) == (a - b) % ClockMod
UAdd(a, b) == (a + b) % ClockMod

\* sensorMap of processSensorData: type code -> sensor name
sensorMap == [c \in {77, 76, 58, 44, 48, 28} |->
                CASE c = 77 -> "BMP390" [] c = 76 -> "BME280" [] c = 58 -> "BMP280"
                  [] c = 44 -> "SHT35" [] c = 48 -> "ADS1115" [] c = 28 -> "DS1"]

NoRecord == [ipAddr |-> "", cmd |-> ""]
NoMessage == [line |-> "", key |-> 0]
\* the answer read into str: the text before the ':' and the tokens after it
NoStr == [prefix |-> <<>>, rows |-> <<>>]
\* a socketClient frame: its arguments, the number of characters it read, the
\* answer it read, its result, processSensorData's i, setupHTTP_request's
\* message and ret, and (history) the records it tried to enqueue and
\* failSocket at its entry
NoScFrame == [pc |-> "none", ip |-> "", cmd |-> "", upd |-> FALSE, index |-> 0,
              str |-> NoStr, res |-> 0, i |-> 0, msg |-> NoMessage, hret |-> -1,
              enq |-> <<>>, fail0 |-> 0]
NoSrFrame == [pc |-> "none", rec |-> NoRecord, ret |-> -1, del |-> <<>>]
NoQsFrame == [pc |-> "none", timeout |-> 0]

\* a queue that accepts an item whatever it holds
xQueueSend_Unbounded(q, size, item) ==
    [ret |-> pdTRUE, q |-> Append(q, item)]

\* a full queue that overwrites its oldest item; a send to the front
xQueueSend_DropsOldest(q, size, item) ==
    IF Len(q) < size
    THEN [ret |-> pdTRUE, q |-> Append(q, item)]
    ELSE [ret |-> errQUEUE_FULL, q |-> Append(Tail(q), item)]
xQueueSend_ToFront(q, size, item) ==
    IF Len(q) < size
    THEN [ret |-> pdTRUE, q |-> << item >> \o q]
    ELSE [ret |-> errQUEUE_FULL, q |-> q]

\* xQueueSend(queue, item, 0): never waits
xQueueSend(q, size, item) ==
    IF Len(q) < size
    THEN [ret |-> pdTRUE, q |-> Append(q, item)]
    ELSE [ret |-> errQUEUE_FULL, q |-> q]

uxQueueSpacesAvailable(q, size) == size - Len(q)
uxQueueMessagesWaiting(q) == Len(q)

(* -------------------------------- Init --------------------------------- *)

\* initRTOS has created the queues and the three tasks; the mutexes are next
InitIn(environments) ==
    /\ QueSocket_Handle = <<>>
    /\ QueHTTP_Handle = <<>>
    /\ xMutex_sock = "null"
    /\ xMutex_http = "null"
    /\ now = 0
    /\ lwdTime = 0
    /\ lwdTimeout = LWD_TIMEOUT
    /\ tickerNext = 0
    /\ failSocket = 0 /\ passSocket = 0 /\ recoveredSocket = 0 /\ retry = 0
    /\ mainpc = "init_mutex_sock"
    /\ nExch = 0
    /\ sc = [c \in Callers |-> NoScFrame]
    /\ tokens = <<>>
    /\ sr = [c \in Callers |-> NoSrFrame]
    /\ sockpc = "recv" /\ socketQue = NoRecord /\ x = 0
    /\ httppc = "recv" /\ message = NoMessage /\ httpResponseCode = 0
    /\ phpScript = <<>>
    /\ j = 0 /\ rc = 0 /\ ret = -1
    /\ passPost = 0 /\ failPost = 0 /\ recovered = 0 /\ delAttempts = 0
    /\ qs = [q \in QsCallers |-> NoQsFrame]
    /\ cbpc = "off"
    /\ restarted = FALSE
    /\ env \in environments
    /\ delLog = {} /\ resetDropped = {} /\ feedLate = FALSE

\* The device has been up for almost 2^32 ms: initRTOS and setup are done, no
\* exchange has failed of late, the loop has just fed the watchdog, and the
\* Ticker's next call is due within the window.
LateInit ==
    /\ QueSocket_Handle = <<>>
    /\ QueHTTP_Handle = <<>>
    /\ xMutex_sock = "free"
    /\ xMutex_http = "free"
    /\ env \in { EnvWrap(lead) : lead \in 1..WrapLead }
    /\ now = env.boot
    /\ lwdTime = now
    /\ lwdTimeout = UAdd(lwdTime, LWD_TIMEOUT)
    /\ tickerNext \in { UAdd(now, k * TickStep) : k \in 1..(LWD_TIMEOUT \div TickStep) }
    /\ failSocket = 0 /\ passSocket = 0 /\ recoveredSocket = 0 /\ retry = 0
    /\ mainpc = "run"
    /\ nExch = 0
    /\ sc = [c \in Callers |-> NoScFrame]
    /\ tokens = <<>>
    /\ sr = [c \in Callers |-> NoSrFrame]
    /\ sockpc = "recv" /\ socketQue = NoRecord /\ x = 0
    /\ httppc = "recv" /\ message = NoMessage /\ httpResponseCode = 0
    /\ phpScript = <<>>
    /\ j = 0 /\ rc = 0 /\ ret = -1
    /\ passPost = 0 /\ failPost = 0 /\ recovered = 0 /\ delAttempts = 0
    /\ qs = [q \in QsCallers |-> NoQsFrame]
    /\ cbpc = "idle"
    /\ restarted = FALSE
    /\ delLog = {} /\ resetDropped = {} /\ feedLate = FALSE

Init == InitIn(Environments) \/ LateInit

(* ------------------------- setup() and loop() -------------------------- *)

\* initRTOS: xMutex_sock = xSemaphoreCreateMutex()
MainCreateMutexSock ==
    /\ ~restarted /\ mainpc = "init_mutex_sock"
    /\ xMutex_sock' = "free"
    /\ mainpc' = "init_mutex_http"
    /\ UNCHANGED << tokens, queueVars, xMutex_http, wdVars, clockVars, counterVars, nExch,
                    sc, sr, sockVars, httpVars, qs, cbpc, restarted, histVars >>

\* initRTOS: xMutex_http = xSemaphoreCreateMutex()
MainCreateMutexHttp ==
    /\ ~restarted /\ mainpc = "init_mutex_http"
    /\ xMutex_http' = "free"
    /\ mainpc' = "setup_feed1"
    /\ UNCHANGED << tokens, queueVars, xMutex_sock, wdVars, clockVars, counterVars, nExch,
                    sc, sr, sockVars, httpVars, qs, cbpc, restarted, histVars >>

\* lwdtFeed, first assignment: lwdTime = millis()
lwdtFeed1 ==
    /\ ~restarted /\ mainpc \in {"setup_feed1", "loop_feed1"}
    /\ lwdTime' = now
    /\ mainpc' = IF mainpc = "setup_feed1" THEN "setup_feed2" ELSE "loop_feed2"
    /\ UNCHANGED << tokens, queueVars, mutexVars, lwdTimeout, tickerNext, clockVars, counterVars,
                    nExch, sc, sr, sockVars, httpVars, qs, cbpc, restarted, histVars >>

\* lwdtFeed, second assignment: lwdTimeout = lwdTime + LWD_TIMEOUT
lwdtFeed2 ==
    /\ ~restarted /\ mainpc \in {"setup_feed2", "loop_feed2"}
    /\ lwdTimeout' = UAdd(lwdTime, LWD_TIMEOUT)
    /\ mainpc' = IF mainpc = "setup_feed2" THEN "attach" ELSE "run"
    /\ UNCHANGED << tokens, queueVars, mutexVars, lwdTime, tickerNext, clockVars, counterVars,
                    nExch, sc, sr, sockVars, httpVars, qs, cbpc, restarted, histVars >>

\* setup: lwdTicker.attach_ms(LWD_TIMEOUT, lwdtcb)
MainAttach ==
    /\ ~restarted /\ mainpc = "attach"
    /\ tickerNext' = UAdd(now, LWD_TIMEOUT)
    /\ cbpc' = "idle"
    /\ mainpc' = "loop_feed1"
    /\ UNCHANGED << tokens, queueVars, mutexVars, lwdTime, lwdTimeout, clockVars, counterVars,
                    nExch, sc, sr, sockVars, httpVars, qs, restarted, histVars >>

\* loop: Blynk.run() and timer.run() return, the next iteration feeds again
MainLoopEnd ==
    /\ ~restarted /\ mainpc = "run"
    /\ mainpc' = "loop_feed1"
    /\ UNCHANGED << tokens, queueVars, mutexVars, wdVars, clockVars, counterVars, nExch,
                    sc, sr, sockVars, httpVars, qs, cbpc, restarted, histVars >>

\* loop: a library call of the iteration never returns
MainHang ==
    /\ ~restarted /\ mainpc = "run" /\ env.watchdog
    /\ mainpc' = "hung"
    /\ UNCHANGED << tokens, queueVars, mutexVars, wdVars, clockVars, counterVars, nExch,
                    sc, sr, sockVars, httpVars, qs, cbpc, restarted, histVars >>

StartSc(ip, cmd, upd) ==
    [NoScFrame EXCEPT !.pc = "exch", !.ip = ip, !.cmd = cmd, !.upd = upd,
                      !.fail0 = failSocket]

StartSr(ip, cmd) ==
    [NoSrFrame EXCEPT !.pc = "send", !.rec = [ipAddr |-> ip, cmd |-> cmd]]

StartQs == [NoQsFrame EXCEPT !.pc = "start"]

\* an exchange that the loop task may also start before initRTOS has returned
MainExchange_DuringInit ==
    /\ ~restarted /\ mainpc \in {"run", "init_mutex_sock"} /\ nExch < env.exchanges
    /\ \E ip \in env.peers, cmd \in Commands :
         sc' = [sc EXCEPT !["main"] = StartSc(ip, cmd, TRUE)]
    /\ mainpc' = "sc"
    /\ nExch' = nExch + 1
    /\ UNCHANGED << tokens, queueVars, mutexVars, wdVars, clockVars, counterVars,
                    sr, sockVars, httpVars, qs, cbpc, restarted, histVars >>

\* getSensorData and BLYNK_WRITE(V42): socketClient(ip, "ALL", 1)
MainExchange ==
    /\ ~restarted /\ mainpc = "run" /\ nExch < env.exchanges
    /\ \E ip \in env.peers, cmd \in Commands :
         sc' = [sc EXCEPT !["main"] = StartSc(ip, cmd, TRUE)]
    /\ mainpc' = "sc"
    /\ nExch' = nExch + 1
    /\ UNCHANGED << tokens, queueVars, mutexVars, wdVars, clockVars, counterVars,
                    sr, sockVars, httpVars, qs, cbpc, restarted, histVars >>

\* BLYNK_WRITE(V42), "reboot": queStat(); ESP.restart()
MainReboot ==
    /\ ~restarted /\ mainpc = "run" /\ env.watchdog
    /\ qs' = [qs EXCEPT !["main"] = StartQs]
    /\ mainpc' = "qs"
    /\ UNCHANGED << tokens, queueVars, mutexVars, wdVars, clockVars, counterVars, nExch,
                    sc, sr, sockVars, httpVars, cbpc, restarted, histVars >>

\* BLYNK_CONNECTED and BLYNK_WRITE(V42), "refr":
\* failSocket = recoveredSocket = retry = 0 is three stores, retry first
MainResetRetry ==
    /\ ~restarted /\ mainpc = "run" /\ env.refresh /\ nExch < env.exchanges
    /\ retry' = 0
    /\ mainpc' = "reset_recovered"
    /\ nExch' = nExch + 1
    /\ UNCHANGED << tokens, queueVars, mutexVars, wdVars, clockVars, failSocket,
                    passSocket, recoveredSocket, sc, sr, sockVars, httpVars, qs, cbpc,
                    restarted, histVars >>

MainResetRecovered ==
    /\ ~restarted /\ mainpc = "reset_recovered"
    /\ recoveredSocket' = 0
    /\ mainpc' = "reset_fail"
    /\ UNCHANGED << tokens, queueVars, mutexVars, wdVars, clockVars, failSocket,
                    passSocket, retry, nExch, sc, sr, sockVars, httpVars, qs, cbpc,
                    restarted, histVars >>

MainResetFail ==
    /\ ~restarted /\ mainpc = "reset_fail"
    /\ failSocket' = 0
    /\ mainpc' = "run"
    /\ UNCHANGED << tokens, queueVars, mutexVars, wdVars, clockVars, passSocket,
                    recoveredSocket, retry, nExch, sc, sr, sockVars, httpVars, qs, cbpc,
                    restarted, histVars >>

(* ---------------------------- socketClient ----------------------------- *)

\* a CRC failure that skips the recovery; a flag that is ignored
UpdatesErrorQueue_NotOnCrc(updateErrorQueue, res) == updateErrorQueue /\ res # 3
UpdatesErrorQueue_Always(updateErrorQueue, res) == TRUE

\* whether a failed exchange writes to the error recovery queue
UpdatesErrorQueue(updateErrorQueue, res) == updateErrorQueue

\* for (int i = 0; i < 5; i++): the rows after the grid's last row with a
\* type code are zero, and the loop passes over them
NextRowPc(grid, n) == IF n < Len(grid) THEN "row" ELSE "ret"

(* the checksum: values are CrcMod wide here, 2^32 wide in the program *)
CrcMod == 2^8

\* crc.add(parsed); crc.calc(): a checksum of the tokens after the ':'
crc32(parsed) ==
    LET sum[n \in 0..Len(parsed)] ==
            IF n = 0 THEN 0
            ELSE (3 * sum[n - 1] + parsed[n] + 2) % CrcMod
    IN  sum[Len(parsed)]

HexDigits ==
    << "0", "1", "2", "3", "4", "5", "6", "7", "8", "9", "a", "b", "c", "d", "e", "f" >>
IsHex(ch) == \E i \in 1..Len(HexDigits) : HexDigits[i] = ch
HexVal(ch) == (CHOOSE i \in 1..Len(HexDigits) : HexDigits[i] = ch) - 1

\* the checksum as the peer writes it in front of the ':'
ToHex(n) ==
    LET hex[k \in Nat] == IF k < 16 THEN << HexDigits[k + 1] >>
                          ELSE Append(hex[k \div 16], HexDigits[(k % 16) + 1])
    IN  hex[n]

\* what the network may make of the prefix of an answer with checksum crc
Damaged(kind, crc) ==
    CASE kind = "value" -> ToHex((crc + 1) % CrcMod)
      [] kind = "letter" -> << "z" >> \o Tail(ToHex(crc))
      [] kind = "empty" -> <<>>
      [] kind = "tail" -> Append(ToHex(crc), "z")

\* the hex digits str starts with
LeadingHex(str) ==
    LET n == CHOOSE k \in 0..Len(str) :
                /\ \A i \in 1..k : IsHex(str[i])
                /\ k < Len(str) => ~IsHex(str[k + 1])
    IN  SubSeq(str, 1, n)

\* what an int that was never assigned may hold
Indeterminate == 0 .. CrcMod - 1

\* sscanf(crcString, "%x", &calculatedCrc) into the unassigned calculatedCrc:
\* the value of the leading hex digits, and no assignment if there is none
sscanf_x(crcString) ==
    LET digits == LeadingHex(crcString)
        val[i \in 0..Len(digits)] ==
            IF i = 0 THEN 0 ELSE (16 * val[i - 1] + HexVal(digits[i])) % CrcMod
    IN  IF digits = <<>> THEN Indeterminate ELSE { val[Len(digits)] }

\* the prefixes an answer may arrive with: intact (0) or damaged (3)
Prefixes(arrival, payload) ==
    IF arrival = 0
    THEN { ToHex(crc32(payload)) }
    ELSE { Damaged(kind, crc32(payload)) : kind \in env.damage }

\* the text of a peer's rows: five tokens a row (type code, two values, key,
\* one more), a "|" between two rows
Wire(rows) ==
    LET text[n \in 0..Len(rows)] ==
            IF n = 0 THEN <<>>
            ELSE (IF n = 1 THEN <<>> ELSE Append(text[n - 1], Bar))
                    \o << rows[n].code, 0, 0, rows[n].key, 0 >>
    IN  text[Len(rows)]

\* while (token != NULL): "|" is z++, j = 0, any other token is
\* tokens[z][j++] = atof(token).  The writes, in order.
Tokenize(parsed) ==
    LET st[n \in 0..Len(parsed)] ==
            IF n = 0 THEN [z |-> 0, j |-> 0, w |-> <<>>]
            ELSE LET p == st[n - 1]
                 IN  IF parsed[n] = Bar
                     THEN [z |-> p.z + 1, j |-> 0, w |-> p.w]
                     ELSE [z |-> p.z, j |-> p.j + 1,
                           w |-> Append(p.w, [z |-> p.z, j |-> p.j, v |-> parsed[n]])]
    IN  st[Len(parsed)].w

\* a write that stays in its row of float tokens[5][5]
InGrid(wr) == wr.z \in 0..(TokenRows - 1) /\ wr.j \in 0..(TokenCols - 1)

\* the float of the array a write lands on: tokens[z][j] is *(*(tokens + z) + j)
Flat(wr) == TokenCols * wr.z + wr.j

\* the grid after memset(tokens, 0, sizeof(tokens)) and the writes w
Cell(w, f) ==
    LET hits == { k \in 1..Len(w) : Flat(w[k]) = f }
    IN  IF hits = {} THEN 0
        ELSE w[CHOOSE k \in hits : \A h \in hits : h <= k].v

\* the grid's rows as processSensorData and setupHTTP_request read them
\* (tokens[i][0], tokens[i][3]), up to the last row with a type code
GridRows(w) ==
    LET coded == { r \in 1..TokenRows : Cell(w, TokenCols * (r - 1)) # 0 }
        last == IF coded = {} THEN 0
                ELSE CHOOSE r \in coded : \A q \in coded : q <= r
        rows[r \in 0..last] ==
            IF r = 0 THEN <<>>
            ELSE Append(rows[r - 1], [code |-> Cell(w, TokenCols * (r - 1)),
                                      key |-> Cell(w, TokenCols * (r - 1) + 3)])
    IN  rows[last]

\* while (client.available()) str[index++] = client.read(); String copyStr = str:
\* with StrSize characters read str has no terminating NUL and copyStr is read
\* on past it; with more the loop has written past str, into the frame
ReadOutcomes(index) ==
    IF index < StrSize THEN {"intact"}
    ELSE IF index = StrSize THEN {"intact", "garbled"}
    ELSE {"intact", "garbled", "reset"}

\* a write outside the grid lands on whatever follows it in memory
ParseOutcomes(w) ==
    IF \A k \in 1..Len(w) : InGrid(w[k]) THEN {"intact"} ELSE {"intact", "reset"}

\* connect, send the command, wait for the answer, read it, check the CRC
\* (0 ok, 1 connect failed, 2 timeout, 3 CRC invalid), tokenize it
ScExchange(c) ==
    /\ ~restarted /\ sc[c].pc = "exch"
    /\ \E arrival \in env.results, payload \in env.payloads,
          trailing \in env.trailing, index \in env.lengths :
       LET parsed == Wire(payload) \o trailing
           written == Tokenize(parsed)
           grid == GridRows(written)
           sent == crc32(parsed)
       IN
       \E read \in ReadOutcomes(index), parse \in ParseOutcomes(written) :
       \E prefix \in Prefixes(arrival, parsed) :
       \E calculatedCrc \in sscanf_x(prefix) :
         LET answered == arrival \notin {1, 2}
             str == IF answered THEN [prefix |-> prefix, rows |-> parsed] ELSE NoStr
             res == IF ~answered THEN arrival
                    ELSE IF read = "garbled" \/ calculatedCrc # sent
                    THEN 3 ELSE 0
         IN  /\ ~answered => /\ payload = CHOOSE p \in env.payloads : TRUE
                              /\ trailing = <<>>
                              /\ index = StrSize - 1
             /\ IF answered /\ read = "reset"
                THEN /\ sc' = [sc EXCEPT ![c].index = index, ![c].str = str,
                                         ![c].pc = "panic_read"]
                     /\ tokens' = tokens /\ sr' = sr /\ restarted' = TRUE
                ELSE IF res = 0 /\ parse = "reset"
                THEN /\ sc' = [sc EXCEPT ![c].index = index, ![c].str = str,
                                         ![c].pc = "panic_parse"]
                     /\ tokens' = grid /\ sr' = sr /\ restarted' = TRUE
                ELSE IF res = 0
                THEN /\ sc' = [sc EXCEPT ![c].res = 0, ![c].index = index,
                                         ![c].str = str,
                                         ![c].pc = NextRowPc(grid, 0)]
                     /\ tokens' = grid /\ sr' = sr /\ restarted' = restarted
                ELSE IF UpdatesErrorQueue(sc[c].upd, res)
                THEN /\ sc' = [sc EXCEPT ![c].res = res, ![c].str = str,
                                         ![c].index = IF answered THEN index ELSE 0,
                                         ![c].pc = "recover"]
                     /\ sr' = [sr EXCEPT ![c] = StartSr(sc[c].ip, sc[c].cmd)]
                     /\ tokens' = tokens /\ restarted' = restarted
                ELSE /\ sc' = [sc EXCEPT ![c].res = res, ![c].str = str,
                                         ![c].index = IF answered THEN index ELSE 0,
                                         ![c].pc = "ret"]
                     /\ sr' = sr /\ tokens' = tokens /\ restarted' = restarted
    /\ UNCHANGED << queueVars, mutexVars, wdVars, clockVars, counterVars, mainVars,
                    sockVars, httpVars, qs, cbpc, histVars >>

\* after socketRecovery returned: failSocket++, return the failure code
ScFailInc(c) ==
    /\ ~restarted /\ sc[c].pc = "recover" /\ sr[c].pc = "done"
    /\ failSocket' = failSocket + 1
    /\ sc' = [sc EXCEPT ![c].pc = "ret"]
    /\ sr' = [sr EXCEPT ![c] = NoSrFrame]
    /\ UNCHANGED << tokens, queueVars, mutexVars, wdVars, clockVars, passSocket, recoveredSocket,
                    retry, mainVars, sockVars, httpVars, qs, cbpc, restarted, histVars >>

\* processSensorData, one row: a known sensor counts as a pass and
\* setupHTTP_request formats its message when the HTTP queue has space
ScRow(c) ==
    /\ ~restarted /\ sc[c].pc = "row"
    /\ LET i == sc[c].i
           row == IF i < Len(tokens) THEN tokens[i + 1] ELSE [code |-> 0, key |-> 0]
       IN  IF row.code \in DOMAIN sensorMap
           THEN /\ passSocket' = passSocket + 1
                /\ IF uxQueueSpacesAvailable(QueHTTP_Handle, HTTP_QUEUE_SIZE) > 0
                   THEN sc' = [sc EXCEPT ![c].pc = "hsend", ![c].hret = -1,
                                  ![c].msg = [line |-> sensorMap[row.code],
                                              key |-> row.key]]
                   ELSE sc' = [sc EXCEPT ![c].i = i + 1, ![c].hret = -1,
                                         ![c].pc = NextRowPc(tokens, i + 1)]
           ELSE /\ passSocket' = passSocket
                /\ sc' = [sc EXCEPT ![c].i = i + 1, ![c].hret = -1,
                                    ![c].pc = NextRowPc(tokens, i + 1)]
    /\ UNCHANGED << tokens, queueVars, mutexVars, wdVars, clockVars, failSocket,
                    recoveredSocket, retry, mainVars, sr, sockVars, httpVars, qs, cbpc,
                    restarted, histVars >>

\* setupHTTP_request: ret = xQueueSend(QueHTTP_Handle, &message, 0)
ScHttpSend(c) ==
    /\ ~restarted /\ sc[c].pc = "hsend"
    /\ LET r == xQueueSend(QueHTTP_Handle, HTTP_QUEUE_SIZE, sc[c].msg)
       IN  /\ QueHTTP_Handle' = r.q
           /\ sc' = [sc EXCEPT ![c].i = sc[c].i + 1, ![c].msg = NoMessage,
                               ![c].hret = r.ret,
                               ![c].pc = NextRowPc(tokens, sc[c].i + 1)]
    /\ UNCHANGED << tokens, QueSocket_Handle, mutexVars, wdVars, clockVars, counterVars,
                    mainVars, sr, sockVars, httpVars, qs, cbpc, restarted, histVars >>

\* socketClient returns to the loop task
MainScReturn ==
    /\ ~restarted /\ mainpc = "sc" /\ sc["main"].pc = "ret"
    /\ sc' = [sc EXCEPT !["main"] = NoScFrame]
    /\ mainpc' = "run"
    /\ UNCHANGED << tokens, queueVars, mutexVars, wdVars, clockVars, counterVars, nExch,
                    sr, sockVars, httpVars, qs, cbpc, restarted, histVars >>

(* --------------------------- socketRecovery ---------------------------- *)

\* xQueueSend(QueSocket_Handle, &socketQue, 0)
SrSend(c) ==
    /\ ~restarted /\ sr[c].pc = "send"
    /\ LET r == xQueueSend(QueSocket_Handle, SOCKET_QUEUE_SIZE, sr[c].rec)
       IN  /\ QueSocket_Handle' = r.q
           /\ sr' = [sr EXCEPT ![c].ret = r.ret,
                               ![c].pc = IF r.ret = pdTRUE THEN "done" ELSE "delete"]
    /\ sc' = IF sc[c].pc = "recover"
             THEN [sc EXCEPT ![c].enq = Append(@, sr[c].rec)]
             ELSE sc
    /\ UNCHANGED << tokens, QueHTTP_Handle, mutexVars, wdVars, clockVars, counterVars, mainVars,
                    sockVars, httpVars, qs, cbpc, restarted, histVars >>

\* queue full: deleteRow("http://192.168.1.252/deleteMAC.php?key=" + IP)
SrDelete(c) ==
    /\ ~restarted /\ sr[c].pc = "delete"
    /\ delLog' = delLog \cup { sr[c].rec.ipAddr }
    /\ sr' = [sr EXCEPT ![c].del = Append(@, sr[c].rec.ipAddr), ![c].pc = "reset"]
    /\ UNCHANGED << tokens, queueVars, mutexVars, wdVars, clockVars, counterVars, mainVars,
                    sc, sockVars, httpVars, qs, cbpc, restarted, env, resetDropped >>

\* a queue-full path without its xQueueReset
SrReset_Skipped(c) ==
    /\ ~restarted /\ sr[c].pc = "reset"
    /\ sr' = [sr EXCEPT ![c].pc = "done"]
    /\ UNCHANGED << tokens, queueVars, mutexVars, wdVars, clockVars, counterVars, mainVars,
                    sc, sockVars, httpVars, qs, cbpc, restarted, histVars >>

\* queue full: xQueueReset(QueSocket_Handle)
SrReset(c) ==
    /\ ~restarted /\ sr[c].pc = "reset"
    /\ resetDropped' = { QueSocket_Handle[i].ipAddr : i \in 1..Len(QueSocket_Handle) }
    /\ QueSocket_Handle' = <<>>
    /\ sr' = [sr EXCEPT ![c].pc = "done"]
    /\ UNCHANGED << tokens, QueHTTP_Handle, mutexVars, wdVars, clockVars, counterVars, mainVars,
                    sc, sockVars, httpVars, qs, cbpc, restarted, env, delLog >>

(* --------------------------- taskSocketRecov --------------------------- *)

\* xQueueReceive(QueSocket_Handle, &socketQue, portMAX_DELAY)
SockReceive ==
    /\ ~restarted /\ sockpc = "recv"
    /\ Len(QueSocket_Handle) > 0
    /\ retry < env.retries
    /\ socketQue' = Head(QueSocket_Handle)
    /\ QueSocket_Handle' = Tail(QueSocket_Handle)
    /\ sockpc' = "take"
    /\ UNCHANGED << tokens, QueHTTP_Handle, mutexVars, wdVars, clockVars, counterVars, mainVars,
                    sc, sr, x, httpVars, qs, cbpc, restarted, histVars >>

\* a take that does not wait for the mutex
SockTake_NoWait ==
    /\ ~restarted /\ sockpc = "take"
    /\ xMutex_sock # "null"
    /\ xMutex_sock' = "sock"
    /\ sockpc' = "delay"
    /\ UNCHANGED << tokens, queueVars, xMutex_http, wdVars, clockVars, counterVars, mainVars,
                    sc, sr, socketQue, x, httpVars, qs, cbpc, restarted, histVars >>

\* xSemaphoreTake(xMutex_sock, portMAX_DELAY)
SockTake ==
    /\ ~restarted /\ sockpc = "take"
    /\ xMutex_sock = "free"
    /\ xMutex_sock' = "sock"
    /\ sockpc' = "delay"
    /\ UNCHANGED << tokens, queueVars, xMutex_http, wdVars, clockVars, counterVars, mainVars,
                    sc, sr, socketQue, x, httpVars, qs, cbpc, restarted, histVars >>

\* vTaskDelay(xDelay)
SockDelay ==
    /\ ~restarted /\ sockpc = "delay"
    /\ sockpc' = "retry"
    /\ UNCHANGED << tokens, queueVars, mutexVars, wdVars, clockVars, counterVars, mainVars,
                    sc, sr, socketQue, x, httpVars, qs, cbpc, restarted, histVars >>

\* a retry that lets socketClient write to the error recovery queue
SockRetry_UpdatesQueue ==
    /\ ~restarted /\ sockpc = "retry"
    /\ retry' = retry + 1
    /\ sc' = [sc EXCEPT !["sock"] = StartSc(socketQue.ipAddr, socketQue.cmd, TRUE)]
    /\ sockpc' = "call"
    /\ UNCHANGED << tokens, queueVars, mutexVars, wdVars, clockVars, failSocket, passSocket,
                    recoveredSocket, mainVars, sr, socketQue, x, httpVars, qs, cbpc,
                    restarted, histVars >>

\* retry++; (*socketQue.fun_ptr)(socketQue.ipAddr, socketQue.cmd, NO_UPDATE_FAIL)
SockRetry ==
    /\ ~restarted /\ sockpc = "retry"
    /\ retry' = retry + 1
    /\ sc' = [sc EXCEPT !["sock"] = StartSc(socketQue.ipAddr, socketQue.cmd,
                                            NO_UPDATE_FAIL # 0)]
    /\ sockpc' = "call"
    /\ UNCHANGED << tokens, queueVars, mutexVars, wdVars, clockVars, failSocket, passSocket,
                    recoveredSocket, mainVars, sr, socketQue, x, httpVars, qs, cbpc,
                    restarted, histVars >>

\* the retried exchange returns x
SockScReturn ==
    /\ ~restarted /\ sockpc = "call" /\ sc["sock"].pc = "ret"
    /\ x' = sc["sock"].res
    /\ sc' = [sc EXCEPT !["sock"] = NoScFrame]
    /\ sockpc' = "check"
    /\ UNCHANGED << tokens, queueVars, mutexVars, wdVars, clockVars, counterVars, mainVars,
                    sr, socketQue, httpVars, qs, cbpc, restarted, histVars >>

\* a failed retry that is not handed back to socketRecovery
SockCheck_DropsFailed ==
    /\ ~restarted /\ sockpc = "check"
    /\ recoveredSocket' = IF x = 0 THEN recoveredSocket + 1 ELSE recoveredSocket
    /\ sockpc' = "give"
    /\ UNCHANGED << tokens, queueVars, mutexVars, wdVars, clockVars, failSocket, passSocket,
                    retry, mainVars, sc, sr, socketQue, x, httpVars, qs, cbpc, restarted,
                    histVars >>

\* a task that gives a record up after its second retry
SockCheck_GivesUp ==
    /\ ~restarted /\ sockpc = "check"
    /\ IF x = 0 \/ retry >= 2
       THEN /\ recoveredSocket' = IF x = 0 THEN recoveredSocket + 1 ELSE recoveredSocket
            /\ sr' = sr
            /\ sockpc' = "give"
       ELSE /\ recoveredSocket' = recoveredSocket
            /\ sr' = [sr EXCEPT !["sock"] = StartSr(socketQue.ipAddr, socketQue.cmd)]
            /\ sockpc' = "requeue"
    /\ UNCHANGED << tokens, queueVars, mutexVars, wdVars, clockVars, failSocket, passSocket,
                    retry, mainVars, sc, socketQue, x, httpVars, qs, cbpc, restarted,
                    histVars >>

\* a task that hands every record back to socketRecovery, recovered or not
SockCheck_RequeuesAlways ==
    /\ ~restarted /\ sockpc = "check"
    /\ recoveredSocket' = IF x = 0 THEN recoveredSocket + 1 ELSE recoveredSocket
    /\ sr' = [sr EXCEPT !["sock"] = StartSr(socketQue.ipAddr, socketQue.cmd)]
    /\ sockpc' = "requeue"
    /\ UNCHANGED << tokens, queueVars, mutexVars, wdVars, clockVars, failSocket, passSocket,
                    retry, mainVars, sc, socketQue, x, httpVars, qs, cbpc, restarted,
                    histVars >>

\* a task that hands socketRecovery the arguments in the wrong order
SockCheck_SwapsArguments ==
    /\ ~restarted /\ sockpc = "check"
    /\ IF x = 0
       THEN /\ recoveredSocket' = recoveredSocket + 1
            /\ sr' = sr
            /\ sockpc' = "give"
       ELSE /\ recoveredSocket' = recoveredSocket
            /\ sr' = [sr EXCEPT !["sock"] = StartSr(socketQue.cmd, socketQue.ipAddr)]
            /\ sockpc' = "requeue"
    /\ UNCHANGED << tokens, queueVars, mutexVars, wdVars, clockVars, failSocket, passSocket,
                    retry, mainVars, sc, socketQue, x, httpVars, qs, cbpc, restarted,
                    histVars >>

\* if (!x) recoveredSocket++; else socketRecovery(socketQue.ipAddr, socketQue.cmd)
SockCheck ==
    /\ ~restarted /\ sockpc = "check"
    /\ IF x = 0
       THEN /\ recoveredSocket' = recoveredSocket + 1
            /\ sr' = sr
            /\ sockpc' = "give"
       ELSE /\ recoveredSocket' = recoveredSocket
            /\ sr' = [sr EXCEPT !["sock"] = StartSr(socketQue.ipAddr, socketQue.cmd)]
            /\ sockpc' = "requeue"
    /\ UNCHANGED << tokens, queueVars, mutexVars, wdVars, clockVars, failSocket, passSocket,
                    retry, mainVars, sc, socketQue, x, httpVars, qs, cbpc, restarted,
                    histVars >>

\* the record's handling is over: the give is all that is left
SockCycleEnd ==
    \/ sockpc = "give"
    \/ sockpc = "requeue" /\ sr["sock"].pc = "done"

\* a cycle that ends without its xSemaphoreGive
SockGive_KeepsLock ==
    /\ ~restarted /\ SockCycleEnd
    /\ sr' = [sr EXCEPT !["sock"] = NoSrFrame]
    /\ socketQue' = NoRecord /\ x' = 0
    /\ sockpc' = "recv"
    /\ UNCHANGED << tokens, queueVars, mutexVars, wdVars, clockVars, counterVars, mainVars,
                    sc, httpVars, qs, cbpc, restarted, histVars >>

\* xSemaphoreGive(xMutex_sock); the locals of the finished cycle are dead
\* (the next xQueueReceive and call overwrite them) and are cleared
SockGive ==
    /\ ~restarted /\ SockCycleEnd
    /\ xMutex_sock' = "free"
    /\ sr' = [sr EXCEPT !["sock"] = NoSrFrame]
    /\ socketQue' = NoRecord /\ x' = 0
    /\ sockpc' = "recv"
    /\ UNCHANGED << tokens, queueVars, xMutex_http, wdVars, clockVars, counterVars, mainVars,
                    sc, httpVars, qs, cbpc, restarted, histVars >>

(* ----------------------------- taskSQL_HTTP ---------------------------- *)

\* xQueueReceive(QueHTTP_Handle, &message, portMAX_DELAY)
HttpReceive ==
    /\ ~restarted /\ httppc = "recv"
    /\ Len(QueHTTP_Handle) > 0
    /\ passPost + failPost < env.posts
    /\ message' = Head(QueHTTP_Handle)
    /\ QueHTTP_Handle' = Tail(QueHTTP_Handle)
    /\ httppc' = "take"
    /\ UNCHANGED << tokens, QueSocket_Handle, mutexVars, wdVars, clockVars, counterVars, mainVars,
                    sc, sr, sockVars, httpResponseCode, j, rc, ret, passPost, failPost,
                    recovered, delAttempts, phpScript, qs, cbpc, restarted, histVars >>

\* xSemaphoreTake(xMutex_http, portMAX_DELAY)
HttpTake ==
    /\ ~restarted /\ httppc = "take"
    /\ xMutex_http = "free"
    /\ xMutex_http' = "http"
    /\ httppc' = "post"
    /\ UNCHANGED << tokens, queueVars, xMutex_sock, wdVars, clockVars, counterVars, mainVars,
                    sc, sr, sockVars, message, httpResponseCode, j, rc, ret, passPost,
                    failPost, recovered, delAttempts, phpScript, qs, cbpc, restarted, histVars >>

\* a POST that counts as delivered only with a 2xx status
PostPassed_Only2xx(code) == code \in 200..299

\* whether the POST counts as delivered
PostPassed(code) == code > 0

\* the string literal of the delete script, one character per element
DeleteEndpoint ==
    << "h", "t", "t", "p", ":", "/", "/", "1", "9", "2", ".", "1", "6", "8", ".",
       "1", ".", "2", "5", "2", "/", "d", "e", "l", "e", "t", "e", ".", "p", "h",
       "p", "?", "k", "e", "y", "=" >>

\* what a read through a pointer outside the literal may find before a NUL
StrayBytes == { <<>>, << "?" >> }

\* String s = "literal" + n, n an int: the literal decays to a const char *,
\* the sum is the pointer n characters further, and the String is what is
\* read from there up to the next NUL; outside the array the read is undefined
StringPlusInt(literal, n) ==
    IF n \in 0..Len(literal)
    THEN { SubSeq(literal, n + 1, Len(literal)) }
    ELSE StrayBytes

\* a POST step that counts the passes and leaves failPost alone
HttpPost_CountsPassesOnly ==
    /\ ~restarted /\ httppc = "post"
    /\ \E code \in env.codes :
         /\ httpResponseCode' = code
         /\ failPost' = failPost
         /\ IF PostPassed(code)
            THEN /\ passPost' = passPost + 1
                 /\ phpScript' = phpScript
                 /\ httppc' = "end"
            ELSE /\ passPost' = passPost
                 /\ phpScript' \in StringPlusInt(DeleteEndpoint, message.key)
                 /\ httppc' = "del"
    /\ j' = 0 /\ rc' = 0
    /\ UNCHANGED << tokens, queueVars, mutexVars, wdVars, clockVars, counterVars, mainVars,
                    sc, sr, sockVars, message, ret, recovered, delAttempts, qs, cbpc,
                    restarted, histVars >>

\* httpResponseCode = http.POST(message.line); passPost++ or, with
\* phpScript = "http://192.168.1.252/delete.php?key=" + message.key, failPost++
HttpPost ==
    /\ ~restarted /\ httppc = "post"
    /\ \E code \in env.codes :
         /\ httpResponseCode' = code
         /\ IF PostPassed(code)
            THEN /\ passPost' = passPost + 1
                 /\ failPost' = failPost
                 /\ phpScript' = phpScript
                 /\ httppc' = "end"
            ELSE /\ passPost' = passPost
                 /\ failPost' = failPost + 1
                 /\ phpScript' \in StringPlusInt(DeleteEndpoint, message.key)
                 /\ httppc' = "del"
    /\ j' = 0 /\ rc' = 0
    /\ UNCHANGED << tokens, queueVars, mutexVars, wdVars, clockVars, counterVars, mainVars,
                    sc, sr, sockVars, message, ret, recovered, delAttempts, qs, cbpc,
                    restarted, histVars >>

\* a delete loop that goes on after a delete succeeded
HttpDelete_IgnoresSuccess ==
    /\ ~restarted /\ httppc = "del"
    /\ \E r \in {0, 1} :
         /\ rc' = r
         /\ j' = j + 1
         /\ httppc' = IF j = MAX_RETRY THEN "resend" ELSE "del"
    /\ delAttempts' = delAttempts + 1
    /\ UNCHANGED << tokens, queueVars, mutexVars, wdVars, clockVars, counterVars, mainVars,
                    sc, sr, sockVars, message, httpResponseCode, ret, passPost, failPost,
                    recovered, phpScript, qs, cbpc, restarted, histVars >>

\* vTaskDelay(xDelay); rc = deleteRow(phpScript); if (rc || j++ == MAX_RETRY) break
HttpDelete ==
    /\ ~restarted /\ httppc = "del"
    /\ \E r \in {0, 1} :
         /\ rc' = r
         /\ j' = IF r # 0 THEN j ELSE j + 1
         /\ httppc' = IF r # 0 \/ j = MAX_RETRY THEN "resend" ELSE "del"
    /\ delAttempts' = delAttempts + 1
    /\ UNCHANGED << tokens, queueVars, mutexVars, wdVars, clockVars, counterVars, mainVars,
                    sc, sr, sockVars, message, httpResponseCode, ret, passPost, failPost,
                    recovered, phpScript, qs, cbpc, restarted, histVars >>

\* a re-submission made only when the delete succeeded
HttpResend_OnlyAfterDelete ==
    /\ ~restarted /\ httppc = "resend"
    /\ LET r == IF rc # 0
                THEN xQueueSend(QueHTTP_Handle, HTTP_QUEUE_SIZE, message)
                ELSE [ret |-> ret, q |-> QueHTTP_Handle]
       IN  /\ QueHTTP_Handle' = r.q
           /\ ret' = r.ret
           /\ recovered' = IF r.ret = pdTRUE THEN recovered + 1 ELSE recovered
    /\ httppc' = "end"
    /\ UNCHANGED << tokens, QueSocket_Handle, mutexVars, wdVars, clockVars, counterVars, mainVars,
                    sc, sr, sockVars, message, httpResponseCode, j, rc, passPost, failPost,
                    delAttempts, phpScript, qs, cbpc, restarted, histVars >>

\* a re-submission counted as recovered whatever xQueueSend returned
HttpResend_AlwaysCounts ==
    /\ ~restarted /\ httppc = "resend"
    /\ LET r == xQueueSend(QueHTTP_Handle, HTTP_QUEUE_SIZE, message)
       IN  /\ QueHTTP_Handle' = r.q
           /\ ret' = r.ret
           /\ recovered' = recovered + 1
    /\ httppc' = "end"
    /\ UNCHANGED << tokens, QueSocket_Handle, mutexVars, wdVars, clockVars, counterVars, mainVars,
                    sc, sr, sockVars, message, httpResponseCode, j, rc, passPost, failPost,
                    delAttempts, phpScript, qs, cbpc, restarted, histVars >>

\* a re-submission that reports success and puts nothing on the queue
HttpResend_ReportsOnly ==
    /\ ~restarted /\ httppc = "resend"
    /\ ret' = pdTRUE
    /\ recovered' = recovered + 1
    /\ httppc' = "end"
    /\ UNCHANGED << tokens, queueVars, mutexVars, wdVars, clockVars, counterVars, mainVars,
                    sc, sr, sockVars, message, httpResponseCode, j, rc, passPost, failPost,
                    delAttempts, phpScript, qs, cbpc, restarted, histVars >>

\* ret = xQueueSend(QueHTTP_Handle, &message, 0); if (ret == pdTRUE) recovered++
HttpResend ==
    /\ ~restarted /\ httppc = "resend"
    /\ LET r == xQueueSend(QueHTTP_Handle, HTTP_QUEUE_SIZE, message)
       IN  /\ QueHTTP_Handle' = r.q
           /\ ret' = r.ret
           /\ recovered' = IF r.ret = pdTRUE THEN recovered + 1 ELSE recovered
    /\ httppc' = "end"
    /\ UNCHANGED << tokens, QueSocket_Handle, mutexVars, wdVars, clockVars, counterVars, mainVars,
                    sc, sr, sockVars, message, httpResponseCode, j, rc, passPost, failPost,
                    delAttempts, phpScript, qs, cbpc, restarted, histVars >>

\* http.end(); vTaskDelay(xDelay)
HttpEnd ==
    /\ ~restarted /\ httppc = "end"
    /\ httppc' = "give"
    /\ UNCHANGED << tokens, queueVars, mutexVars, wdVars, clockVars, counterVars, mainVars,
                    sc, sr, sockVars, message, httpResponseCode, j, rc, ret, passPost,
                    failPost, recovered, delAttempts, phpScript, qs, cbpc, restarted, histVars >>

\* xSemaphoreGive(xMutex_http); the locals of the finished cycle are dead
\* (the next xQueueReceive and POST overwrite them) and are cleared
HttpGive ==
    /\ ~restarted /\ httppc = "give"
    /\ xMutex_http' = "free"
    /\ message' = NoMessage /\ httpResponseCode' = 0 /\ phpScript' = <<>>
    /\ j' = 0 /\ rc' = 0 /\ ret' = -1 /\ delAttempts' = 0
    /\ httppc' = "recv"
    /\ UNCHANGED << tokens, queueVars, xMutex_sock, wdVars, clockVars, counterVars, mainVars,
                    sc, sr, sockVars, passPost, failPost, recovered, qs, cbpc, restarted,
                    histVars >>

(* ------------------------------- queStat ------------------------------- *)

\* unsigned long timeout = millis()
QsStart(q) ==
    /\ ~restarted /\ qs[q].pc = "start"
    /\ qs' = [qs EXCEPT ![q].timeout = now, ![q].pc = "poll_sock"]
    /\ UNCHANGED << tokens, queueVars, mutexVars, wdVars, clockVars, counterVars, mainVars,
                    sc, sr, sockVars, httpVars, cbpc, restarted, histVars >>

\* a polling loop without its timeout
QsBusy_NoTimeout(q) == "poll_sock"

\* the loop's body: give up after 5000 ms, else wait a second and test again
QsBusy(q) ==
    IF USub(now, qs[q].timeout) > QUE_TIMEOUT THEN "ret_false" ELSE "poll_sock"

\* while (uxQueueMessagesWaiting(QueSocket_Handle) > 0 || ...
QsPollSock(q) ==
    /\ ~restarted /\ qs[q].pc = "poll_sock"
    /\ qs' = [qs EXCEPT ![q].pc = IF uxQueueMessagesWaiting(QueSocket_Handle) > 0
                                  THEN QsBusy(q) ELSE "poll_http"]
    /\ UNCHANGED << tokens, queueVars, mutexVars, wdVars, clockVars, counterVars, mainVars,
                    sc, sr, sockVars, httpVars, cbpc, restarted, histVars >>

\* ... || uxQueueMessagesWaiting(QueHTTP_Handle) > 0)
QsPollHttp(q) ==
    /\ ~restarted /\ qs[q].pc = "poll_http"
    /\ qs' = [qs EXCEPT ![q].pc = IF uxQueueMessagesWaiting(QueHTTP_Handle) > 0
                                  THEN QsBusy(q) ELSE "take_sock"]
    /\ UNCHANGED << tokens, queueVars, mutexVars, wdVars, clockVars, counterVars, mainVars,
                    sc, sr, sockVars, httpVars, cbpc, restarted, histVars >>

\* a queStat that goes on without the socket mutex when it is held
QsTakeSock_NoWait(q) ==
    /\ ~restarted /\ qs[q].pc = "take_sock"
    /\ xMutex_sock' = IF xMutex_sock = "free" THEN q ELSE xMutex_sock
    /\ qs' = [qs EXCEPT ![q].pc = "take_http"]
    /\ UNCHANGED << tokens, queueVars, xMutex_http, wdVars, clockVars, counterVars, mainVars,
                    sc, sr, sockVars, httpVars, cbpc, restarted, histVars >>

\* a queStat whose first take is that of the HTTP mutex
QsTakeSock_HttpFirst(q) ==
    /\ ~restarted /\ qs[q].pc = "take_sock"
    /\ xMutex_http = "free"
    /\ xMutex_http' = q
    /\ qs' = [qs EXCEPT ![q].pc = "take_http"]
    /\ UNCHANGED << tokens, queueVars, xMutex_sock, wdVars, clockVars, counterVars,
                    mainVars, sc, sr, sockVars, httpVars, cbpc, restarted, histVars >>

\* xSemaphoreTake(xMutex_sock, portMAX_DELAY)
QsTakeSock(q) ==
    /\ ~restarted /\ qs[q].pc = "take_sock"
    /\ xMutex_sock = "free"
    /\ xMutex_sock' = q
    /\ qs' = [qs EXCEPT ![q].pc = "take_http"]
    /\ UNCHANGED << tokens, queueVars, xMutex_http, wdVars, clockVars, counterVars, mainVars,
                    sc, sr, sockVars, httpVars, cbpc, restarted, histVars >>

\* a queStat that gives the socket mutex back before it returns
QsTakeHttp_GivesSock(q) ==
    /\ ~restarted /\ qs[q].pc = "take_http"
    /\ xMutex_http = "free"
    /\ xMutex_http' = q
    /\ xMutex_sock' = "free"
    /\ qs' = [qs EXCEPT ![q].pc = "ret_true"]
    /\ UNCHANGED << tokens, queueVars, wdVars, clockVars, counterVars, mainVars,
                    sc, sr, sockVars, httpVars, cbpc, restarted, histVars >>

\* xSemaphoreTake(xMutex_http, portMAX_DELAY); return true
QsTakeHttp(q) ==
    /\ ~restarted /\ qs[q].pc = "take_http"
    /\ xMutex_http = "free"
    /\ xMutex_http' = q
    /\ qs' = [qs EXCEPT ![q].pc = "ret_true"]
    /\ UNCHANGED << tokens, queueVars, xMutex_sock, wdVars, clockVars, counterVars, mainVars,
                    sc, sr, sockVars, httpVars, cbpc, restarted, histVars >>

\* queStat has returned, true or false: ESP.restart()
Restart(q) ==
    /\ ~restarted /\ qs[q].pc \in {"ret_true", "ret_false"}
    /\ restarted' = TRUE
    /\ UNCHANGED << tokens, queueVars, mutexVars, wdVars, clockVars, counterVars, mainVars,
                    sc, sr, sockVars, httpVars, qs, cbpc, histVars >>

(* ------------------------- lwdtcb and the clock ------------------------ *)

\* a test that also fires when exactly the window has elapsed; a test
\* without the check of the deadline
WatchdogExpired_AtWindow(t, feedTime, deadline) ==
    \/ USub(t, feedTime) >= LWD_TIMEOUT
    \/ USub(deadline, feedTime) # LWD_TIMEOUT
WatchdogExpired_ElapsedOnly(t, feedTime, deadline) ==
    USub(t, feedTime) > LWD_TIMEOUT

\* a test on the values of the clock as they are, with no wraparound
WatchdogExpired_NoWrap(t, feedTime, deadline) ==
    \/ t - feedTime > LWD_TIMEOUT
    \/ deadline - feedTime # LWD_TIMEOUT

\* the callback's test
WatchdogExpired(t, feedTime, deadline) ==
    \/ USub(t, feedTime) > LWD_TIMEOUT
    \/ USub(deadline, feedTime) # LWD_TIMEOUT

\* the Ticker calls lwdtcb every LWD_TIMEOUT ms; an expired watchdog reports
\* (Blynk.virtualWrite) and calls queStat
lwdtcb ==
    /\ ~restarted /\ cbpc = "idle" /\ now = tickerNext
    /\ tickerNext' = UAdd(tickerNext, LWD_TIMEOUT)
    /\ IF WatchdogExpired(now, lwdTime, lwdTimeout)
       THEN /\ cbpc' = "qs"
            /\ qs' = [qs EXCEPT !["timer"] = StartQs]
       ELSE /\ cbpc' = "idle"
            /\ qs' = qs
    /\ UNCHANGED << tokens, queueVars, mutexVars, lwdTime, lwdTimeout, clockVars, counterVars,
                    mainVars, sc, sr, sockVars, httpVars, restarted, histVars >>

\* a caller of queStat is in its polling loop and has not timed out
Polling ==
    \E q \in QsCallers :
        /\ qs[q].pc \in {"poll_sock", "poll_http"}
        /\ USub(now, qs[q].timeout) <= QUE_TIMEOUT

\* lwdtFeed has run at least once
Fed == mainpc \notin {"init_mutex_sock", "init_mutex_http", "setup_feed1"}

\* millis() advances; a due callback runs first.  feedLate records that the
\* last feed is a full window or more in the past.
Tick ==
    /\ ~restarted /\ env.watchdog
    /\ ~(cbpc = "idle" /\ now = tickerNext)
    /\ \/ USub(now, env.boot) < env.ticks * TickStep
       \/ mainpc = "hung" /\ cbpc = "idle"
       \/ Polling
    /\ now' = UAdd(now, TickStep)
    /\ feedLate' = (feedLate \/ (Fed /\ USub(now', lwdTime) >= LWD_TIMEOUT))
    /\ UNCHANGED << tokens, queueVars, mutexVars, wdVars, counterVars, mainVars,
                    sc, sr, sockVars, httpVars, qs, cbpc, restarted, histVars >>

(* --------------------------- specification ----------------------------- *)

Next ==
    \/ MainCreateMutexSock \/ MainCreateMutexHttp
    \/ lwdtFeed1 \/ lwdtFeed2 \/ MainAttach
    \/ MainLoopEnd \/ MainHang \/ MainExchange \/ MainReboot \/ MainScReturn
    \/ MainResetRetry \/ MainResetRecovered \/ MainResetFail
    \/ \E c \in Callers : ScExchange(c) \/ ScFailInc(c) \/ ScRow(c) \/ ScHttpSend(c)
    \/ \E c \in Callers : SrSend(c) \/ SrDelete(c) \/ SrReset(c)
    \/ SockReceive \/ SockTake \/ SockDelay \/ SockRetry \/ SockScReturn
    \/ SockCheck \/ SockGive
    \/ HttpReceive \/ HttpTake \/ HttpPost \/ HttpDelete \/ HttpResend
    \/ HttpEnd \/ HttpGive
    \/ \E q \in QsCallers : QsStart(q) \/ QsPollSock(q) \/ QsPollHttp(q)
                            \/ QsTakeSock(q) \/ QsTakeHttp(q) \/ Restart(q)
    \/ lwdtcb
    \/ Tick

Spec == Init /\ [][Next]_vars

(* ------------------------- fair scheduling ----------------------------- *)

\* taskSocketRecov's loop, the calls it makes included
SockStep ==
    \/ SockReceive \/ SockTake \/ SockDelay \/ SockRetry \/ SockScReturn
    \/ SockCheck \/ SockGive
    \/ ScExchange("sock") \/ ScRow("sock") \/ ScHttpSend("sock")
    \/ SrSend("sock") \/ SrDelete("sock") \/ SrReset("sock")

\* taskSQL_HTTP's loop
HttpStep ==
    \/ HttpReceive \/ HttpTake \/ HttpPost \/ HttpDelete \/ HttpResend
    \/ HttpEnd \/ HttpGive

\* the timer task: lwdtcb and the queStat it calls, its mutex takes apart
TimerStep ==
    \/ lwdtcb \/ QsStart("timer") \/ QsPollSock("timer") \/ QsPollHttp("timer")
    \/ Restart("timer")

\* The scheduler runs every task that is ready, the clock advances, and a task
\* blocked on a mutex gets it when it is given again and again.  The loop task
\* has no fairness: it may hang.
Fairness ==
    /\ WF_vars(Tick)
    /\ WF_vars(TimerStep)
    /\ WF_vars(SockStep)
    /\ WF_vars(HttpStep)
    /\ SF_vars(QsTakeSock("timer"))
    /\ SF_vars(QsTakeHttp("timer"))

LiveInit == InitIn({ EnvHang, EnvHangHttp, EnvRetry, EnvRepost, EnvRefresh })

LiveSpec == LiveInit /\ [][Next]_vars /\ Fairness

(* ------------------------------ properties ----------------------------- *)

C1_Bounded ==
    /\ Len(QueSocket_Handle) <= SOCKET_QUEUE_SIZE
    /\ Len(QueHTTP_Handle) <= HTTP_QUEUE_SIZE

\* a producer that is at its xQueueSend can take the step, whatever the queue holds
C1_NeverBlocks ==
    ~restarted =>
        /\ \A c \in Callers : sr[c].pc = "send" => ENABLED SrSend(c)
        /\ \A c \in Callers : sc[c].pc = "hsend" => ENABLED ScHttpSend(c)
        /\ httppc = "resend" => ENABLED HttpResend

\* a send that finds its queue full returns errQUEUE_FULL and adds nothing
C1_FullSendReturns ==
    /\ \A c \in Callers :
         (SrSend(c) /\ Len(QueSocket_Handle) = SOCKET_QUEUE_SIZE)
            => sr'[c].ret = errQUEUE_FULL /\ QueSocket_Handle' = QueSocket_Handle
    /\ \A c \in Callers :
         (ScHttpSend(c) /\ Len(QueHTTP_Handle) = HTTP_QUEUE_SIZE)
            => sc'[c].hret = errQUEUE_FULL /\ QueHTTP_Handle' = QueHTTP_Handle
    /\ (HttpResend /\ Len(QueHTTP_Handle) = HTTP_QUEUE_SIZE)
            => ret' = errQUEUE_FULL /\ QueHTTP_Handle' = QueHTTP_Handle

\* C1: in every reachable state the socket queue holds at most 2 records and
\* the HTTP queue at most 5 messages, whatever the interleaving of the
\* producers and the two consumer tasks; a send to a full queue returns
\* errQUEUE_FULL, leaves the queue as it is, and never blocks the producer.
C1_QueuesBounded ==
    /\ []C1_Bounded
    /\ []C1_NeverBlocks
    /\ [][C1_FullSendReturns]_vars

\* socketRecovery's send has just been refused by a full socket queue
C1_SocketSendRefused ==
    \E c \in Callers :
        /\ sr[c].pc = "delete" /\ sr[c].ret = errQUEUE_FULL
        /\ Len(QueSocket_Handle) = SOCKET_QUEUE_SIZE

\* setupHTTP_request's send has been refused: the queue filled up between its
\* test of the free space and its send
C1_HttpSendRefused ==
    \E c \in Callers : sc[c].hret = errQUEUE_FULL /\ Len(QueHTTP_Handle) = HTTP_QUEUE_SIZE

\* queStat has returned true to the caller that restarts
DrainedAndLocked == \E q \in QsCallers : qs[q].pc = "ret_true"

\* C2: when the hard restart happens, neither recovery task is between having
\* dequeued a record and having finished its handling.  Stated for the
\* restarts that follow a queStat which returned true, holding both mutexes.
C2_RestartNotMidRecord ==
    (restarted /\ DrainedAndLocked) => (sockpc = "recv" /\ httppc = "recv")

\* C3: when the hard restart happens after queStat drained the queues and took
\* both mutexes, the socket queue and the HTTP queue are empty.
C3_RestartQueuesEmpty ==
    (restarted /\ DrainedAndLocked) => (QueSocket_Handle = <<>> /\ QueHTTP_Handle = <<>>)

\* C4: as long as every feed follows the one before by less than the window,
\* lwdtcb never starts the report/drain/restart sequence.
C4_FedNeverTriggers == (cbpc = "qs") => feedLate

\* C5: once the main loop has hung, so that the feed stops, the hard restart
\* eventually happens, under fair scheduling of the timer and of the recovery
\* tasks, also when the queues never empty and queStat times out.
C5_HangLeadsToRestart == (mainpc = "hung") ~> restarted

\* the main loop hung, queStat timed out with records pending, the restart followed
C5_RestartAfterTimeout ==
    /\ restarted /\ mainpc = "hung" /\ qs["timer"].pc = "ret_false"
    /\ QueSocket_Handle # <<>>

\* C6: every record that xQueueReset removed from the socket queue has had a
\* delete request for its own peer address.
C6_ResetDroppedCompensated == resetDropped \subseteq delLog

C7_FullOutcome ==
    \A c \in Callers :
        (sr[c].pc = "done" /\ sr[c].ret = errQUEUE_FULL)
            => sr[c].del = << sr[c].rec.ipAddr >>

C7_FullSteps ==
    \A c \in Callers :
        /\ (SrSend(c) /\ Len(QueSocket_Handle) = SOCKET_QUEUE_SIZE)
              => (sr'[c].ret = errQUEUE_FULL /\ sr'[c].pc = "delete")
        /\ SrDelete(c) => sr'[c].del = << sr[c].rec.ipAddr >>
        /\ SrReset(c) => (QueSocket_Handle' = <<>> /\ sr'[c].pc = "done")

\* C7: socketRecovery called for a peer while the socket queue holds 2 records
\* gets errQUEUE_FULL from the send, issues exactly one delete request, keyed
\* on that peer's address, and resets the queue to empty, so that the peer's
\* record is not in the queue after the reset.
C7_QueueFullRecovery == []C7_FullOutcome /\ [][C7_FullSteps]_vars

\* socketRecovery has gone through its queue-full path
C7_FullPathDone ==
    \E c \in Callers :
        /\ sr[c].pc = "done" /\ sr[c].ret = errQUEUE_FULL
        /\ sr[c].del = << sr[c].rec.ipAddr >> /\ QueSocket_Handle = <<>>

SockResolved == x = 0 /\ sr["sock"].pc = "none"
SockResubmitted ==
    /\ x # 0 /\ sr["sock"].pc = "done" /\ sr["sock"].rec = socketQue
    /\ sr["sock"].ret = pdTRUE /\ sr["sock"].del = <<>>
SockDiscarded ==
    /\ x # 0 /\ sr["sock"].pc = "done" /\ sr["sock"].rec = socketQue
    /\ sr["sock"].ret = errQUEUE_FULL /\ sr["sock"].del = << socketQue.ipAddr >>
HttpResolved == PostPassed(httpResponseCode) /\ ret = -1 /\ delAttempts = 0
HttpResubmitted == ~PostPassed(httpResponseCode) /\ ret = pdTRUE
HttpDiscarded == ~PostPassed(httpResponseCode) /\ ret = errQUEUE_FULL /\ delAttempts >= 1

ExactlyOne(a, b, c) == Cardinality({ i \in 1..3 : << a, b, c >>[i] }) = 1

\* C8: when a recovery task is about to give its mutex back, the record it
\* dequeued has had exactly one of three outcomes: resolved, re-submitted to
\* its queue, or discarded by a full queue after a delete was attempted.
C8_ThreeOutcomes ==
    /\ SockCycleEnd => ExactlyOne(SockResolved, SockResubmitted, SockDiscarded)
    /\ httppc = "give" => ExactlyOne(HttpResolved, HttpResubmitted, HttpDiscarded)

\* the socket task's re-submission was refused and its record discarded
C8_SockRecordDiscarded == sockpc = "requeue" /\ SockDiscarded

\* C9: a socketClient call with updateErrorQueue set that fails (1, 2 or 3)
\* has made exactly one enqueue attempt, of a record with its own peer and
\* command, and has incremented failSocket once; a call that returns 0 has
\* made none.
C9_OneEnqueuePerFailure ==
    \A c \in Callers :
        sc[c].pc = "ret" =>
            /\ (sc[c].upd /\ sc[c].res \in 1..3) =>
                  /\ sc[c].enq = << [ipAddr |-> sc[c].ip, cmd |-> sc[c].cmd] >>
                  /\ failSocket = sc[c].fail0 + 1
            /\ sc[c].res = 0 => sc[c].enq = <<>>

\* a call with updateErrorQueue set has failed its CRC check and returns
C9_FailedCallReturns ==
    /\ sc["main"].pc = "ret" /\ sc["main"].upd /\ sc["main"].res = 3
    /\ Len(sc["main"].enq) = 1

\* C10: no step of a socketClient call made with updateErrorQueue = false
\* changes the socket queue or failSocket.
C10_NoUpdateLeavesQueue ==
    [][\A c \in Callers :
          (sc[c].pc # "none" /\ ~sc[c].upd /\ sc'[c] # sc[c])
              => UNCHANGED << QueSocket_Handle, failSocket >>]_vars

\* the socket task's retry, made with NO_UPDATE_FAIL, has failed and returns
C10_RetryFailed ==
    /\ sc["sock"].pc = "ret" /\ ~sc["sock"].upd /\ sc["sock"].res # 0
    /\ sc["sock"].enq = <<>> /\ sr["sock"].pc = "none"

(* --------------------------- locks and holders -------------------------- *)

\* the statements of taskSocketRecov between its take and its give
SockLocked == sockpc \in {"delay", "retry", "call", "check", "requeue", "give"}

\* the statements of taskSQL_HTTP between its take and its give
HttpLocked == httppc \in {"post", "del", "resend", "end", "give"}

\* who is past a take of xMutex_sock and not past the matching give
SockHolders ==
    {t \in {"sock"} : SockLocked}
        \cup {q \in QsCallers : qs[q].pc \in {"take_http", "ret_true"}}

\* who is past a take of xMutex_http and not past the matching give
HttpHolders ==
    {t \in {"http"} : HttpLocked} \cup {q \in QsCallers : qs[q].pc = "ret_true"}

\* the holder a mutex records
Owner(mutex) == IF mutex \in {"null", "free"} THEN {} ELSE {mutex}

\* C11: at any time at most one of the socket recovery task, the HTTP
\* recovery task and the callers of queStat is between a take and the give of
\* the socket lock, and the same for the HTTP lock; that one is the holder
\* the mutex records.
C11_OneHolderPerLock ==
    /\ Cardinality(SockHolders) <= 1 /\ SockHolders = Owner(xMutex_sock)
    /\ Cardinality(HttpHolders) <= 1 /\ HttpHolders = Owner(xMutex_http)

\* queStat holds the socket lock and is about to take the HTTP lock, while
\* the socket task waits for the socket lock
C11_Contention ==
    /\ sockpc = "take" /\ xMutex_sock \in QsCallers
    /\ qs[xMutex_sock].pc = "take_http"

\* C12: a queStat that returns true holds both locks itself, and neither
\* recovery task is inside its locked statements; a queStat that returns false
\* holds neither lock.
C12_TrueOnlyWithBothLocks ==
    \A q \in QsCallers :
        /\ qs[q].pc = "ret_true" =>
              /\ xMutex_sock = q /\ xMutex_http = q
              /\ ~SockLocked /\ ~HttpLocked
        /\ qs[q].pc = "ret_false" => (xMutex_sock # q /\ xMutex_http # q)

\* queStat has returned true while the socket task waits for the lock
C12_TrueWhileTaskWaits ==
    \E q \in QsCallers :
        /\ qs[q].pc = "ret_true" /\ xMutex_sock = q /\ xMutex_http = q
        /\ sockpc = "take"

\* queStat has timed out and returned false while a task holds its lock
C12_FalseWhileTaskHolds ==
    \E q \in QsCallers :
        qs[q].pc = "ret_false" /\ (xMutex_sock = "sock" \/ xMutex_http = "http")

(* ------------------------ compensating delete loop ---------------------- *)

\* the HTTP task has left the delete loop of a failed POST
AfterDeleteLoop ==
    httppc \in {"resend", "end", "give"} /\ ~PostPassed(httpResponseCode)

\* C13: for one failed POST the loop calls deleteRow at most MAX_RETRY (5)
\* times.
C13_AtMostFiveDeletes == delAttempts <= MAX_RETRY

\* C14: a delete attempt is made only while no earlier attempt of the same
\* failed POST has succeeded, so after j failed attempts the first success
\* is attempt j + 1 and it is the last one.
C14_StopsAtFirstSuccess ==
    /\ httppc = "del" => (rc = 0 /\ delAttempts = j)
    /\ (AfterDeleteLoop /\ rc # 0) => delAttempts = j + 1

\* the third delete attempt is the first to succeed and the loop is left
C14_ThirdAttemptSucceeds ==
    httppc = "resend" /\ rc # 0 /\ j = 2 /\ delAttempts = 3

(* ------------------------------ re-submission --------------------------- *)

\* the step of taskSQL_HTTP that executes its xQueueSend
ResendStep == httppc = "resend" /\ httppc' = "end"

\* ret holds the result of an xQueueSend
Resubmitted == ret \in {pdTRUE, errQUEUE_FULL}

C16_RecoveredIffAccepted ==
    [][/\ recovered' # recovered => ResendStep
       /\ ResendStep =>
            /\ ret' = pdTRUE <=> Len(QueHTTP_Handle) < HTTP_QUEUE_SIZE
            /\ ret' = pdTRUE <=> recovered' = recovered + 1
            /\ ret' # pdTRUE =>
                  (recovered' = recovered /\ QueHTTP_Handle' = QueHTTP_Handle)]_vars

\* the re-submission found the HTTP queue full: nothing was counted
C16_ResubmitRefused ==
    /\ httppc = "end" /\ ret = errQUEUE_FULL /\ recovered = 0 /\ failPost > 0
    /\ Len(QueHTTP_Handle) = HTTP_QUEUE_SIZE

(* ------------------------------ queue contents -------------------------- *)

\* q2 is q1 with one item added at the end
Appended(q1, q2) == Len(q2) = Len(q1) + 1 /\ SubSeq(q2, 1, Len(q1)) = q1

\* q2 is q1 with its first item removed
Received(q1, q2) == q1 # <<>> /\ q2 = Tail(q1)

\* C17: a producer at a send to the HTTP queue (setupHTTP_request or the
\* re-submission) can always take its step; while the queue holds 5 messages
\* the only step that changes it is a receive, so a refused send leaves the 5
\* pending messages and their order as they are; and no step ever empties or
\* rewrites the HTTP queue: it only grows at the end and shrinks at the head.
C17_FullHttpQueueUnchanged ==
    /\ [](~restarted =>
            /\ \A c \in Callers : sc[c].pc = "hsend" => ENABLED ScHttpSend(c)
            /\ httppc = "resend" => ENABLED HttpResend)
    /\ [][/\ Len(QueHTTP_Handle) = HTTP_QUEUE_SIZE =>
                \/ QueHTTP_Handle' = QueHTTP_Handle
                \/ httppc = "recv" /\ Received(QueHTTP_Handle, QueHTTP_Handle')
          /\ QueHTTP_Handle' # QueHTTP_Handle =>
                \/ Received(QueHTTP_Handle, QueHTTP_Handle')
                \/ Appended(QueHTTP_Handle, QueHTTP_Handle')]_vars

\* setupHTTP_request has been refused by a full HTTP queue and has returned
C17_SetupSendRefused ==
    \E c \in Callers :
        /\ sc[c].pc # "hsend" /\ sc[c].hret = errQUEUE_FULL
        /\ Len(QueHTTP_Handle) = HTTP_QUEUE_SIZE

\* C18: each queue is first in, first out: an accepted send puts its item
\* behind everything pending (the re-submissions of the two recovery tasks
\* included), a receive hands the consumer the oldest item, and no other step
\* reorders a queue (the only other change is the socket queue's reset).
C18_Fifo ==
    [][/\ QueSocket_Handle' # QueSocket_Handle =>
            \/ /\ Received(QueSocket_Handle, QueSocket_Handle')
               /\ sockpc = "recv" /\ socketQue' = Head(QueSocket_Handle)
            \/ /\ Appended(QueSocket_Handle, QueSocket_Handle')
               /\ \E c \in Callers : sr[c].pc = "send"
                     /\ QueSocket_Handle' = Append(QueSocket_Handle, sr[c].rec)
            \/ /\ QueSocket_Handle' = <<>>
               /\ \E c \in Callers : sr[c].pc = "reset"
       /\ QueHTTP_Handle' # QueHTTP_Handle =>
            \/ /\ Received(QueHTTP_Handle, QueHTTP_Handle')
               /\ httppc = "recv" /\ message' = Head(QueHTTP_Handle)
            \/ /\ Appended(QueHTTP_Handle, QueHTTP_Handle')
               /\ \/ ResendStep /\ QueHTTP_Handle' = Append(QueHTTP_Handle, message)
                  \/ \E c \in Callers : sc[c].pc = "hsend"
                        /\ QueHTTP_Handle' = Append(QueHTTP_Handle, sc[c].msg)]_vars

\* the socket task has re-submitted its record behind a pending record of
\* another peer
C18_ResubmittedBehindPending ==
    /\ sockpc = "requeue" /\ sr["sock"].pc = "done" /\ sr["sock"].ret = pdTRUE
    /\ Len(QueSocket_Handle) = 2
    /\ QueSocket_Handle[2] = socketQue
    /\ QueSocket_Handle[1].ipAddr # socketQue.ipAddr

(* ------------------------------ lock discipline ------------------------- *)

\* C19: a recovery task holds its lock exactly while it handles one received
\* record: it holds it at none of its receive and take positions, at every
\* position from the take to the give (delays, retry, delete loop and
\* re-enqueue decision included) it holds it and has a received record, and
\* while it holds it the record it handles does not change.
C19_LockForOneRecord ==
    /\ [](/\ sockpc \in {"recv", "take"} => xMutex_sock # "sock"
          /\ SockLocked => (xMutex_sock = "sock" /\ socketQue # NoRecord)
          /\ httppc \in {"recv", "take"} => xMutex_http # "http"
          /\ HttpLocked => (xMutex_http = "http" /\ message # NoMessage))
    /\ [][/\ (SockLocked /\ SockLocked') => socketQue' = socketQue
          /\ (HttpLocked /\ HttpLocked') => message' = message]_vars

\* the HTTP task holds its lock in the middle of the delete loop while other
\* messages wait in the queue and the socket task waits in its receive
C19_HeldThroughDeleteLoop ==
    /\ httppc = "del" /\ delAttempts = 2 /\ xMutex_http = "http"
    /\ QueHTTP_Handle # <<>> /\ message # NoMessage
    /\ sockpc = "recv" /\ xMutex_sock = "free"

\* C20: every step that changes failSocket, passSocket, recoveredSocket or
\* retry is a step of the socket recovery task made while it holds the socket
\* lock, and every step that changes passPost, failPost or recovered is made
\* while the HTTP recovery task holds the HTTP lock; no step of the loop
\* task's own socketClient call changes a counter.
C20_CountersUnderOwnLock ==
    [][/\ counterVars' # counterVars =>
            (xMutex_sock = "sock" /\ sc'["main"] = sc["main"])
       /\ << passPost, failPost, recovered >>' # << passPost, failPost, recovered >> =>
            xMutex_http = "http"]_vars

(* ------------------------- retries without a ceiling -------------------- *)

\* the record of the one failed exchange of the run
TheRecord == [ipAddr |-> "A", cmd |-> "ALL"]

\* the record is in the socket queue, or taskSocketRecov has received it and
\* has not finished with it
RecordInFlight ==
    \/ QueSocket_Handle = << TheRecord >>
    \/ QueSocket_Handle = <<>> /\ socketQue = TheRecord /\ sockpc # "recv"

\* a retry of taskSocketRecov has found the peer reachable
RetrySucceeded == sc["sock"].pc = "ret" /\ sc["sock"].res = 0

\* C21: in a run whose only failure is one exchange of the loop task and in
\* which no retry ever finds the peer reachable, the record, once enqueued,
\* is always either in the socket queue or in the hands of the socket task,
\* and it is taken, retried and re-enqueued again as many times as the bound
\* on retries allows: no count stops the cycle.
C21_RetriedWithoutCeiling ==
    []~RetrySucceeded =>
        /\ []((env = EnvRetry /\ failSocket = 1) => RecordInFlight)
        /\ (env = EnvRetry /\ QueSocket_Handle # <<>>)
              ~> (retry = env.retries /\ QueSocket_Handle = << TheRecord >>
                    /\ sockpc = "recv")

\* every retry the bound allows has failed and the record is queued again
C21_StillQueued ==
    /\ env = EnvRetry /\ retry = env.retries /\ recoveredSocket = 0
    /\ QueSocket_Handle = << TheRecord >> /\ sockpc = "recv"

\* the last retry the bound allows has found the peer unreachable
FinalRetryFailed ==
    retry = env.retries /\ sc["sock"].pc = "ret" /\ sc["sock"].res # 0

\* C22: a retry that succeeds counts the record as recovered once and hands
\* nothing back to socketRecovery; and in a run whose only failure is one
\* exchange of the loop task (so that no queue-full reset removes the record)
\* and in which the peer is reachable at the latest for the last retry the
\* bound allows, the queued record is eventually resolved: from then on the
\* socket queue is empty, the task waits for a record and recoveredSocket is 1.
C22_ReachablePeerResolves ==
    /\ [][(sockpc = "check" /\ sockpc' # "check" /\ x = 0) =>
            /\ recoveredSocket' = recoveredSocket + 1
            /\ sockpc' = "give" /\ sr' = sr
            /\ QueSocket_Handle' = QueSocket_Handle]_vars
    /\ []~FinalRetryFailed =>
          ((env = EnvRetry /\ QueSocket_Handle # <<>>)
              ~> [](QueSocket_Handle = <<>> /\ sockpc = "recv" /\ recoveredSocket = 1))

\* the peer was unreachable for the first retry and reachable for a later
\* one: the record is resolved and the queue is empty
C22_ResolvedAfterFailedRetry ==
    /\ env = EnvRetry /\ retry >= 2 /\ recoveredSocket = 1
    /\ QueSocket_Handle = <<>> /\ sockpc = "recv" /\ xMutex_sock = "free"

(* ----------------------------- POSTed again ----------------------------- *)

\* the message of the one sensor row of the run
TheMessage == [line |-> sensorMap[RowBME.code], key |-> RowBME.key]

\* every POST the bound allows has failed
AllPostsFailed == failPost = env.posts

\* C23: a message whose POST failed and whose re-submission was accepted is
\* POSTed again (as long as the bound on POSTs allows one more); and if the
\* transport works at the latest for the last POST the bound allows, a queued
\* message is eventually counted as passed, after which the queue stays empty.
C23_RepostedUntilPassed ==
    /\ (env = EnvRepost /\ httppc = "end" /\ ret = pdTRUE
            /\ passPost + failPost < env.posts)
          ~> (httppc = "post" /\ message = TheMessage /\ failPost >= 1)
    /\ []~AllPostsFailed =>
          ((env = EnvRepost /\ QueHTTP_Handle # <<>>)
              ~> [](passPost = 1 /\ QueHTTP_Handle = <<>> /\ httppc = "recv"))

\* the message passed at its third POST
C23_PassedAtThirdPost ==
    /\ env = EnvRepost /\ failPost = 2 /\ passPost = 1 /\ recovered = 2
    /\ QueHTTP_Handle = <<>> /\ httppc = "recv"

(* --------------------------- the delete request ------------------------- *)

\* the key in decimal, one character per element
Decimal(n) ==
    LET digit == << "0", "1", "2", "3", "4", "5", "6", "7", "8", "9" >>
        dec[k \in Nat] == IF k < 10 THEN << digit[k + 1] >>
                          ELSE Append(dec[k \div 10], digit[(k % 10) + 1])
    IN  dec[n]

\* C24: while the HTTP task is in its delete loop, the script it passes to
\* deleteRow is the delete endpoint followed by the decimal key of the
\* message whose POST failed.
C24_DeleteKeyedByMessageKey ==
    httppc = "del" => phpScript = DeleteEndpoint \o Decimal(message.key)

(* ------------------------------ the checksum ---------------------------- *)

\* socketClient has read an answer and has checked its checksum
Answered(c) == sc[c].pc \notin {"none", "exch"} /\ sc[c].res \notin {1, 2}

\* the answer's prefix is the checksum of its rows
PrefixIsChecksum(c) == sc[c].str.prefix = ToHex(crc32(sc[c].str.rows))

\* C25: an exchange whose answer carries the checksum of its payload as
\* prefix returns 0; an exchange whose answer carries any other prefix returns
\* 3, dispatches none of its rows and, with updateErrorQueue set, has made
\* exactly one recovery enqueue when it returns.
C25_ChecksumDecides ==
    \A c \in Callers :
        Answered(c) =>
            IF PrefixIsChecksum(c)
            THEN sc[c].res = 0
            ELSE /\ sc[c].res = 3 /\ sc[c].i = 0 /\ sc[c].pc \notin {"row", "hsend"}
                 /\ (sc[c].upd /\ sc[c].pc = "ret") => Len(sc[c].enq) = 1

(* --------------------------- POST classification ------------------------ *)

\* the step of taskSQL_HTTP that executes http.POST
PostStep == httppc = "post" /\ httppc' # "post"

\* C26: the POST step counts a pass exactly when the status is greater than
\* 0, and then changes only the pass counter and goes on to the end of the
\* cycle; with a status of 0 or less it counts a failure and enters the
\* recovery branch.  A cycle that ends with a status greater than 0 has made
\* no delete attempt, built no delete script and made no re-submission; one
\* that ends with a status of 0 or less has made both.
C26_PassIffPositiveStatus ==
    /\ [][PostStep =>
            IF httpResponseCode' > 0
            THEN /\ passPost' = passPost + 1 /\ failPost' = failPost
                 /\ httppc' = "end"
                 /\ UNCHANGED << queueVars, recovered, delAttempts, ret >>
            ELSE /\ failPost' = failPost + 1 /\ passPost' = passPost
                 /\ httppc' = "del"]_vars
    /\ [](httppc \in {"end", "give"} =>
            IF httpResponseCode > 0
            THEN delAttempts = 0 /\ ret = -1 /\ phpScript = <<>>
            ELSE delAttempts >= 1 /\ Resubmitted)

\* a POST answered with HTTP status 404 has been counted as passed
C26_ErrorStatusCountsAsPass ==
    /\ httppc = "end" /\ httpResponseCode = 404
    /\ passPost = 1 /\ failPost = 0 /\ delAttempts = 0 /\ ret = -1

\* a POST that returned 0 has been counted as failed and re-submitted
C26_ZeroCountsAsFail ==
    /\ httppc = "end" /\ httpResponseCode = 0
    /\ passPost = 0 /\ failPost = 1 /\ delAttempts >= 1 /\ Resubmitted

(* ---------------------- the socket task's cycle ------------------------- *)

\* the order of taskSocketRecov's statements for one record
SockOrder ==
    { << "recv", "take" >>, << "take", "delay" >>, << "delay", "retry" >>,
      << "retry", "call" >>, << "call", "check" >>, << "check", "give" >>,
      << "check", "requeue" >>, << "give", "recv" >>, << "requeue", "recv" >> }

\* C27: for each record it receives the socket task goes once through: take
\* the socket lock, delay, increment retry, call the record's operation,
\* resolve or re-queue, and only then receive again.  The lock passes to the
\* task only at the take; the task changes retry only at its place, by one,
\* together with the start of a call for the record's peer and command with
\* updateErrorQueue false (the one other write of retry is the reset to zero
\* of the loop task's "refr" command, which is no step of the task); no other
\* step starts a call of the task or changes the record it holds.
C27_OneRetryPerRecord ==
    /\ [][/\ sockpc' # sockpc => << sockpc, sockpc' >> \in SockOrder
          /\ (xMutex_sock' = "sock" /\ xMutex_sock # "sock") =>
                (sockpc = "take" /\ sockpc' = "delay")
          /\ retry' # retry =>
                \/ /\ sockpc = "retry" /\ sockpc' = "call" /\ retry' = retry + 1
                   /\ sc'["sock"].pc = "exch"
                \/ /\ mainpc = "run" /\ mainpc' = "reset_recovered" /\ retry' = 0
                   /\ sockpc' = sockpc
          /\ (sc["sock"].pc = "none" /\ sc'["sock"].pc # "none") => sockpc = "retry"
          /\ socketQue' # socketQue => (sockpc = "recv" \/ sockpc' = "recv")]_vars
    /\ [](sockpc = "call" =>
            /\ sc["sock"].ip = socketQue.ipAddr /\ sc["sock"].cmd = socketQue.cmd
            /\ ~sc["sock"].upd /\ xMutex_sock = "sock")

\* the task retries its second record, for the other peer
C27_SecondRecordRetried ==
    /\ sockpc = "call" /\ sc["sock"].pc = "exch" /\ retry = 2
    /\ socketQue.ipAddr = "B" /\ sc["sock"].ip = "B" /\ xMutex_sock = "sock"

\* C28: a cycle of the socket task that ends after a failed retry has made
\* exactly one socketRecovery call, for the record it received (same peer
\* address and command), with one xQueueSend, and still holds the socket
\* lock; a cycle that ends after a successful retry has made none.  The task
\* sends to the socket queue only inside that call.
C28_OneRequeueOfSameRecord ==
    /\ [](SockCycleEnd =>
            /\ xMutex_sock = "sock"
            /\ IF x # 0
               THEN /\ sr["sock"].pc = "done" /\ sr["sock"].rec = socketQue
                    /\ sr["sock"].ret \in {pdTRUE, errQUEUE_FULL}
               ELSE sr["sock"] = NoSrFrame)
    /\ [][/\ (sr["sock"].pc = "none" /\ sr'["sock"].pc # "none") =>
                /\ sockpc = "check" /\ x # 0
                /\ sr'["sock"].rec = socketQue
          /\ (sr["sock"].pc = "send" /\ sr'["sock"].pc # "send") =>
                /\ sockpc = "requeue" /\ xMutex_sock = "sock"
                /\ \/ QueSocket_Handle' = Append(QueSocket_Handle, socketQue)
                   \/ QueSocket_Handle' = QueSocket_Handle]_vars

\* the retry for peer B failed and its record is back in the queue, the
\* lock still held
C28_RequeuedBeforeGive ==
    /\ sockpc = "requeue" /\ sr["sock"].pc = "done" /\ sr["sock"].ret = pdTRUE
    /\ x # 0 /\ socketQue.ipAddr = "B" /\ xMutex_sock = "sock"
    /\ QueSocket_Handle # <<>>
    /\ QueSocket_Handle[Len(QueSocket_Handle)] = socketQue

(* ------------------------- the end of the HTTP cycle -------------------- *)

CallbackStep == cbpc = "idle" /\ tickerNext' # tickerNext

\* everything but the Ticker's next due time
ProgramVars ==
    << queueVars, mutexVars, lwdTime, lwdTimeout, clockVars, counterVars, mainVars,
       sc, tokens, sr, sockVars, httpVars, qs, cbpc, restarted, histVars >>

\* C30: a run of the callback starts the report/drain/restart sequence (it
\* enters queStat) exactly when more than the timeout has elapsed since the
\* last feed or the deadline minus the feed time is not the timeout; in
\* the other case it changes nothing of the program's state.  The sequence is
\* started by no other step of the timer.
C30_CallbackFiresIffExpired ==
    [][/\ CallbackStep =>
            IF \/ USub(now, lwdTime) > LWD_TIMEOUT
               \/ USub(lwdTimeout, lwdTime) # LWD_TIMEOUT
            THEN /\ cbpc' = "qs" /\ qs'["timer"].pc = "start"
                 /\ UNCHANGED << queueVars, mutexVars, restarted >>
            ELSE UNCHANGED ProgramVars
       /\ (cbpc' = "qs" /\ cbpc # "qs") => CallbackStep]_vars

\* the callback has just run with exactly the window elapsed since the last
\* feed and a consistent deadline, and has changed nothing
C30_CallbackRanQuietly ==
    /\ cbpc = "idle" /\ ~restarted /\ qs["timer"] = NoQsFrame
    /\ now > 0 /\ USub(tickerNext, now) = LWD_TIMEOUT
    /\ USub(now, lwdTime) = LWD_TIMEOUT
    /\ USub(lwdTimeout, lwdTime) = LWD_TIMEOUT

\* the callback has fired because the deadline was inconsistent, with the
\* last feed within the window
C30_FiredOnInconsistentDeadline ==
    /\ cbpc = "qs" /\ USub(now, lwdTime) <= LWD_TIMEOUT
    /\ USub(lwdTimeout, lwdTime) # LWD_TIMEOUT

(* ------------------------ the answer's buffer --------------------------- *)

\* C31: the read loop of socketClient never stores a character past the end
\* of str, whatever the number of characters the peer sends: the number of
\* characters stored is at most the size of str.
C31_ReadStaysInBuffer == \A c \in Callers : sc[c].index <= StrSize

(* ---------------------------- the token grid ---------------------------- *)

\* socketClient has tokenized an answer whose checksum it accepted
Tokenized(c) ==
    sc[c].res = 0 /\ sc[c].pc \in {"row", "hsend", "ret", "panic_parse"}

\* C32: the tokenizer of socketClient never writes outside the memory of the
\* 5 x 5 token grid, whatever the number of "|" tokens and of tokens a row in
\* the payload.
C32_TokensStayInGrid ==
    \A c \in Callers :
        Tokenized(c) =>
            LET w == Tokenize(sc[c].str.rows)
            IN  \A k \in 1..Len(w) : Flat(w[k]) \in 0..(TokenRows * TokenCols - 1)

(* ------------------------- two exchanges at once ------------------------ *)

\* socketClient, called by c, is between its memset of the grid and the end
\* of processSensorData
InParse(c) == sc[c].pc \in {"row", "hsend"}

\* C33: an exchange of the loop task and a retry of taskSocketRecov are never
\* both in the part of socketClient that writes and reads the token grid.
C33_OneExchangeParses == ~(InParse("main") /\ InParse("sock"))

\* C33, what follows: the message an exchange hands to setupHTTP_request
\* comes from a row of the answer this exchange read.
C33_DispatchesOwnRows ==
    \A c \in Callers :
        sc[c].pc = "hsend" =>
            \E r \in 1..Len(GridRows(Tokenize(sc[c].str.rows))) :
                sc[c].msg.key = GridRows(Tokenize(sc[c].str.rows))[r].key

(* -------------------------- the counters' order ------------------------- *)

\* C34: in every reachable state recoveredSocket is at most retry, also
\* when the loop task resets the counters while taskSocketRecov runs.
C34_RecoveredAtMostRetry == recoveredSocket <= retry

(* ------------------------ after queStat returned true ------------------- *)

\* q has returned from queStat with true and has not restarted the device yet
Shutdown(q) == qs[q].pc = "ret_true" /\ ~restarted

\* the caller holds both mutexes, it is at its ESP.restart(), and each
\* recovery task is at its receive or waits for its mutex
C35_LockedOut ==
    \A q \in QsCallers :
        Shutdown(q) =>
            /\ xMutex_sock = q /\ xMutex_http = q
            /\ ENABLED Restart(q)
            /\ (q = "main" => mainpc = "qs") /\ (q = "timer" => cbpc = "qs")
            /\ sockpc \in {"recv", "take"} /\ httppc \in {"recv", "take"}
            /\ sc["sock"] = NoScFrame

\* a step from there gives no mutex back, starts no retry and no POST, and
\* the caller's own step is the restart
C35_NothingStarts ==
    \A q \in QsCallers :
        Shutdown(q) =>
            /\ xMutex_sock' = q /\ xMutex_http' = q
            /\ sockpc' \in {"recv", "take"} /\ httppc' \in {"recv", "take"}
            /\ retry' = retry /\ passPost' = passPost /\ failPost' = failPost
            /\ (qs'[q] # qs[q] \/ (q = "main" /\ mainpc' # mainpc)
                    \/ (q = "timer" /\ cbpc' # cbpc)) => restarted'

\* C35: once queStat has both mutexes, no retry exchange and no POST begins
\* before the restart: queStat's caller never gives a mutex back and its
\* next step is ESP.restart().
C35_NoWorkAfterShutdown == []C35_LockedOut /\ [][C35_NothingStarts]_vars

\* the device restarted after queStat returned true while taskSocketRecov,
\* which had dequeued a record, was waiting for its mutex
C35_RestartedWithTaskWaiting ==
    /\ restarted /\ DrainedAndLocked
    /\ sockpc = "take" /\ retry = 0

(* ----------------------------- circular wait ---------------------------- *)

\* the threads that take a mutex
Threads == {"sock", "http"} \cup QsCallers

\* the mutex a thread is in the take of
Requested(t) ==
    IF t = "sock" THEN (IF sockpc = "take" THEN {"xMutex_sock"} ELSE {})
    ELSE IF t = "http" THEN (IF httppc = "take" THEN {"xMutex_http"} ELSE {})
    ELSE IF qs[t].pc = "take_sock" THEN {"xMutex_sock"}
    ELSE IF qs[t].pc = "take_http" THEN {"xMutex_http"}
    ELSE {}

\* the mutexes a thread holds
Held(t) ==
    (IF xMutex_sock = t THEN {"xMutex_sock"} ELSE {})
        \cup (IF xMutex_http = t THEN {"xMutex_http"} ELSE {})

\* a is in the take of a mutex that b holds
WaitsFor(a, b) == Requested(a) \cap Held(b) # {}

\* a recovery task holds its own mutex only and holds none when it takes; a
\* caller of queStat takes the socket mutex with none held and holds the
\* HTTP mutex only with the socket mutex; no two threads wait for each other
C36_NoCycle ==
    /\ Held("sock") \subseteq {"xMutex_sock"} /\ Held("http") \subseteq {"xMutex_http"}
    /\ \A t \in {"sock", "http"} : Requested(t) # {} => Held(t) = {}
    /\ \A q \in QsCallers :
          /\ Requested(q) = {"xMutex_sock"} => Held(q) = {}
          /\ "xMutex_http" \in Held(q) => "xMutex_sock" \in Held(q)
    /\ ~(\E a, b \in Threads : a # b /\ WaitsFor(a, b) /\ WaitsFor(b, a))

\* the scheduler runs a loop task that is in queStat
MainQsFair ==
    /\ WF_vars(QsStart("main") \/ QsPollSock("main") \/ QsPollHttp("main")
                    \/ Restart("main"))
    /\ SF_vars(QsTakeSock("main"))
    /\ SF_vars(QsTakeHttp("main"))

\* C36: no circular wait on the two mutexes is reachable, and unless the
\* device restarts every take of a recovery task is granted in the end.
C36_NoCircularWait ==
    /\ []C36_NoCycle
    /\ MainQsFair =>
          /\ (sockpc = "take") ~> (sockpc = "delay" \/ restarted)
          /\ (httppc = "take") ~> (httppc = "post" \/ restarted)

\* taskSocketRecov waits for the socket mutex, which the loop task took in
\* queStat, where it is about to take the HTTP mutex
C36_TaskWaitsForShutdown ==
    /\ sockpc = "take" /\ xMutex_sock = "main" /\ qs["main"].pc = "take_http"
    /\ xMutex_http = "free" /\ ~restarted

(* --------------------------- the clock's wrap --------------------------- *)

\* millis() has wrapped since the last feed
Wrapped == now < lwdTime

\* lwdtFeed is not between its two assignments
FeedComplete == mainpc \notin {"setup_feed2", "loop_feed2"}

\* C37: a callback that runs after millis() wrapped, less than one window
\* after a complete feed made before the wrap, does not start the restart
\* sequence.
C37_WrapAloneNeverTriggers ==
    [][(CallbackStep /\ Wrapped /\ FeedComplete /\ USub(now, lwdTime) < LWD_TIMEOUT)
            => cbpc' = "idle"]_vars

\* the callback has just run, after the wrap and two thirds of a window
\* after a feed made before the wrap, and has changed nothing
C37_PassedAcrossWrap ==
    /\ cbpc = "idle" /\ ~restarted /\ qs["timer"] = NoQsFrame
    /\ USub(tickerNext, now) = LWD_TIMEOUT
    /\ Wrapped /\ USub(now, lwdTime) = 2 * TickStep
    /\ lwdTimeout < lwdTime

(* ------------------------ tasks before the mutexes ---------------------- *)

\* initRTOS has created the tasks and has not returned yet
InInitRTOS == mainpc \in {"init_mutex_sock", "init_mutex_http"}

\* C38: a recovery task is in the take of a mutex only when the mutex exists:
\* until initRTOS has returned both queues are empty, so both tasks are in
\* their xQueueReceive, and when it has returned both mutexes exist.
C38_TakeOnlyCreatedLock ==
    /\ sockpc = "take" => xMutex_sock # "null"
    /\ httppc = "take" => xMutex_http # "null"
    /\ InInitRTOS =>
          /\ QueSocket_Handle = <<>> /\ QueHTTP_Handle = <<>>
          /\ sockpc = "recv" /\ httppc = "recv"
          /\ \A c \in Callers : sc[c] = NoScFrame /\ sr[c] = NoSrFrame
    /\ ~InInitRTOS => (xMutex_sock # "null" /\ xMutex_http # "null")

\* the tasks run, the socket mutex exists and the HTTP mutex does not yet:
\* neither task can leave its xQueueReceive
C38_TasksBeforeHttpMutex ==
    /\ mainpc = "init_mutex_http" /\ xMutex_sock = "free" /\ xMutex_http = "null"
    /\ sockpc = "recv" /\ httppc = "recv"
    /\ ~ENABLED SockReceive /\ ~ENABLED HttpReceive

(* ------------------------ the counters of taskSQL_HTTP ------------------ *)

\* the POST of the received message returns in this step
PostCompletes == httppc = "post" /\ httppc' # "post"

\* C39: in taskSQL_HTTP recovered never exceeds failPost, and passPost +
\* failPost counts the completed POSTs: it starts at zero, the step in which
\* a POST returns raises it by one and no other step changes it.
C39_PostCountersAgree ==
    /\ [](recovered <= failPost /\ passPost >= 0 /\ recovered >= 0)
    /\ [][IF PostCompletes
          THEN passPost' + failPost' = passPost + failPost + 1
          ELSE passPost' = passPost /\ failPost' = failPost]_vars

\* two POSTs have returned, one passed and one failed, and the full queue
\* refused the resubmission of the failed message
C39_PassedAndFailedUnrecovered ==
    /\ passPost >= 1 /\ failPost >= 1 /\ recovered < failPost
    /\ httppc = "recv"

====
